---------------------------- MODULE Spec2Model ----------------------------
(***************************************************************************)
(* A model of the minepixel editor's interactive canvas                    *)
(* (src/app/ui/canvas_widget.py), its painting tools (src/app/tools) and   *)
(* the parts of the host application that drive them.                      *)
(*                                                                         *)
(* Representation.  Floats (zoom, pan, screen coordinates) are fixed-point *)
(* integers in units of 1/Scale: zoom 1.0 is Scale, one pixel is Scale.    *)
(* Wall-clock time is kept as the time elapsed since the last render and   *)
(* the last hover update, saturating at the respective delay, because the  *)
(* code only ever compares the elapsed time against that delay.  The clock *)
(* advances between handler invocations (action TimePasses).               *)
(* The Dear PyGui drawlist is kept as what it shows: per grid cell the     *)
(* top-most image item, the grid-line items, the hover rectangles and the  *)
(* "No image loaded" text.                                                 *)
(***************************************************************************)
EXTENDS Integers, Sequences, FiniteSets, TLC

\* ------------------------------------------------------------------------
\* Program constants
\* ------------------------------------------------------------------------
Scale == 10 * 100                \* fixed-point unit of zoom and pixels
CanvasW == 800                   \* CanvasWidget.__init__ width default
CanvasH == 600                   \* CanvasWidget.__init__ height default
BlockSize == 16                  \* _block_size
MinZoom == Scale \div 10         \* _min_zoom = 0.1
MaxZoom == 32 * Scale            \* _max_zoom = 32.0
RenderDelay == 16                \* _render_delay = 0.016 s, in ms
HoverDelay == 50                 \* _hover_render_delay = 0.05 s, in ms
DirtyThreshold == 50             \* len(_dirty_blocks) < 50
MaxBatchSize == 100              \* _max_batch_size
ViewMargin == 50                 \* the 50 px margin of the visible range
FitMargin == 40                  \* the 2 x 20 px margin of zoom_to_fit
GridMinZoom == Scale \div 2      \* grid overlay drawn when zoom >= 0.5

\* ------------------------------------------------------------------------
\* Bounds of the model
\* ------------------------------------------------------------------------
MaxW == 3                        \* width of the largest grid handed to set_grid
MaxH == 2                        \* height of the largest grid handed to set_grid
MaxSizeArg == 16                 \* largest argument given to set_brush_size
MinSizeArg == 0 - 2              \* smallest argument given to set_brush_size
TimeStep == 25                   \* ms by which one TimePasses step advances the clock
MaxZoomSteps == 3                \* zoom_in / zoom_out calls in a run
MaxPans == 1                     \* pans started in a run

Tiles == {"stone", "dirt"}       \* block ids of the catalog
None == "None"                   \* Python's None
NoCell == <<-1, -1>>             \* the (-1, -1) "no cell" marker
NoItem == <<>>                   \* no draw item at a place of the drawlist
NoPos == <<>>                    \* BrushTool._last_painted_pos = None

VARIABLES
    canvas,     \* the CanvasWidget's fields
    brush,      \* the BrushTool's fields
    picker,     \* the PickerTool's fields
    scr,        \* the drawlist `tag` of Dear PyGui: what the canvas shows
    env,        \* the mouse, and where the main loop's render tick stands
    g,          \* history: the last operation and what its render calls did
    ref         \* a second canvas on which every edit is followed by a full render

vars == <<canvas, brush, picker, scr, env, g, ref>>

\* ------------------------------------------------------------------------
\* Arithmetic
\* ------------------------------------------------------------------------
Max(a, b) == IF a >= b THEN a ELSE b
Min(a, b) == IF a <= b THEN a ELSE b

\* Python's int(n / d) for d > 0: truncation toward zero.
TruncDiv(n, d) == IF n >= 0 THEN n \div d ELSE 0 - ((0 - n) \div d)

Cells(w, h) == (0 .. w - 1) \X (0 .. h - 1)

InGrid(cv, x, y) == 0 <= y /\ y < cv.gridH /\ 0 <= x /\ x < cv.gridW

\* grid_to_screen: the top-left corner of a cell, in 1/Scale pixels.
GridToScreenX(cv, x) == x * BlockSize * cv.zoom + cv.panX
GridToScreenY(cv, y) == y * BlockSize * cv.zoom + cv.panY

\* screen_to_grid: int((screen - pan) / (block_size * zoom)).
ScreenToGridX(cv, sx) == TruncDiv(sx - cv.panX, BlockSize * cv.zoom)
ScreenToGridY(cv, sy) == TruncDiv(sy - cv.panY, BlockSize * cv.zoom)

View(cv) == <<cv.zoom, cv.panX, cv.panY>>


\* ------------------------------------------------------------------------
\* The world an operation works on: the canvas, the tools, the drawlist and
\* the history of the running operation.
\* ------------------------------------------------------------------------
World == [cv |-> canvas, br |-> brush, pk |-> picker, scr |-> scr, g |-> g]

EmptyGrid == [c \in {} |-> None]

\* drawn maps each cell that shows an image item to <<tile, zoom, panX, panY>>.
EmptyDrawn == [c \in {} |-> NoItem]

\* The drawlist right after dpg.add_drawlist, and after
\* dpg.delete_item(tag, children_only=True).
ClearedScreen ==
    [exists |-> TRUE, drawn |-> EmptyDrawn, lines |-> NoItem,
     borders |-> {}, hover |-> {}, text |-> FALSE]

\* The drawlist after the draw target was torn down: no item is left.
GoneScreen == [ClearedScreen EXCEPT !.exists = FALSE]

\* ------------------------------------------------------------------------
\* CanvasWidget._update_hover_layer
\* ------------------------------------------------------------------------
\* brush_size of the hover footprint: the active tool's, when it has one.
HoverBrushSize(w) == IF w.cv.activeTool = "brush" THEN w.br.size ELSE 1

\* Variant of the footprint loop that highlights the pointer cell alone.
HoverFootprintPointerOnly(w) ==
    IF InGrid(w.cv, w.cv.hover[1], w.cv.hover[2]) THEN {w.cv.hover} ELSE {}

HoverFootprint(w) ==
    LET r == HoverBrushSize(w) \div 2
        cx == w.cv.hover[1]
        cy == w.cv.hover[2]
    IN  IF InGrid(w.cv, cx, cy)
        THEN {c \in Cells(w.cv.gridW, w.cv.gridH) :
                /\ cx - r <= c[1] /\ c[1] <= cx + r
                /\ cy - r <= c[2] /\ c[2] <= cy + r}
        ELSE {}

UpdateHoverLayer(w) ==
    IF w.cv.sinceHover < HoverDelay THEN w
    ELSE LET w1 == [w EXCEPT !.cv.sinceHover = 0]
         IN  IF w1.cv.isPanning \/ ~w1.scr.exists THEN w1
             ELSE [w1 EXCEPT !.scr.hover = HoverFootprint(w1),
                             !.g.hoverRedrawn = TRUE]

\* ------------------------------------------------------------------------
\* CanvasWidget._render_dirty_blocks
\* ------------------------------------------------------------------------
DirtyVisible(cv, x, y) ==
    LET size == BlockSize * cv.zoom
        sx == GridToScreenX(cv, x)
        sy == GridToScreenY(cv, y)
    IN  /\ sx + size >= 0 /\ sx <= cv.width * Scale
        /\ sy + size >= 0 /\ sy <= cv.height * Scale

\* The dirty cells the dirty render draws: in the grid and on screen.
DirtyDrawn(cv) ==
    {c \in cv.dirty : InGrid(cv, c[1], c[2]) /\ DirtyVisible(cv, c[1], c[2])}

RenderDirtyBlocks(w) ==
    IF w.cv.dirty = {} \/ ~w.scr.exists
    THEN [w EXCEPT !.cv.dirty = {}, !.cv.isRendering = FALSE,
                   !.g.mode = "dirty_skip",
                   !.g.cleared = @ \cup w.cv.dirty]
    ELSE LET cv == w.cv
             todo == DirtyDrawn(cv)
             withGrid == cv.showGrid /\ cv.zoom >= GridMinZoom
         IN  [w EXCEPT
                !.scr.drawn = [c \in (DOMAIN w.scr.drawn) \cup todo |->
                                 IF c \in todo
                                 THEN <<cv.grid[c]>> \o View(cv)
                                 ELSE w.scr.drawn[c]],
                !.scr.borders = IF withGrid THEN @ \cup todo ELSE @,
                !.cv.dirty = {},
                !.cv.isRendering = FALSE,
                !.g.mode = "dirty",
                !.g.cleared = @ \cup cv.dirty]

\* ------------------------------------------------------------------------
\* CanvasWidget.render: the full render
\* ------------------------------------------------------------------------
StartX(cv) == Max(0, TruncDiv(0 - ViewMargin * Scale - cv.panX, BlockSize * cv.zoom))
StartY(cv) == Max(0, TruncDiv(0 - ViewMargin * Scale - cv.panY, BlockSize * cv.zoom))
EndX(cv) ==
    Min(cv.gridW - 1,
        TruncDiv((cv.width + ViewMargin) * Scale - cv.panX, BlockSize * cv.zoom))
EndY(cv) ==
    Min(cv.gridH - 1,
        TruncDiv((cv.height + ViewMargin) * Scale - cv.panY, BlockSize * cv.zoom))

XMask(cv, x) ==
    /\ GridToScreenX(cv, x) >= 0 - BlockSize * cv.zoom
    /\ GridToScreenX(cv, x) <= cv.width * Scale
YMask(cv, y) ==
    /\ GridToScreenY(cv, y) >= 0 - BlockSize * cv.zoom
    /\ GridToScreenY(cv, y) <= cv.height * Scale

\* visible_blocks: the cells the full render draws.
VisibleCells(cv) ==
    {c \in Cells(cv.gridW, cv.gridH) :
        /\ StartX(cv) <= c[1] /\ c[1] <= EndX(cv) /\ XMask(cv, c[1])
        /\ StartY(cv) <= c[2] /\ c[2] <= EndY(cv) /\ YMask(cv, c[2])}

\* What _draw_grid leaves: the visible range its lines span, and the view.
GridLines(cv) == <<StartX(cv), StartY(cv), EndX(cv), EndY(cv)>> \o View(cv)

FullRender(w) ==
    IF ~w.scr.exists
    THEN \* dpg.delete_item on the missing drawlist raises; finally releases
         [w EXCEPT !.cv.isRendering = FALSE, !.g.mode = "notarget"]
    ELSE IF w.cv.gridH = 0
    THEN [w EXCEPT !.scr = [ClearedScreen EXCEPT !.text = TRUE],
                   !.cv.isRendering = FALSE,
                   !.g.mode = "empty"]
    ELSE LET cv == w.cv
             vis == VisibleCells(cv)
             w1 == [w EXCEPT
                      !.scr = [ClearedScreen EXCEPT
                                 !.drawn = [c \in vis |->
                                              <<cv.grid[c]>> \o View(cv)],
                                 !.lines = IF cv.showGrid /\ cv.zoom >= GridMinZoom
                                           THEN GridLines(cv) ELSE NoItem],
                      !.cv.dirty = {},
                      !.cv.isRendering = FALSE,
                      !.g.mode = "full",
                      !.g.cleared = @ \cup cv.dirty]
         IN  UpdateHoverLayer(w1)

\* Variant of the mode selection of lines 701-704 that does not look at
\* force_full.
UseDirtyUnforced(cv, forceFull) ==
    /\ Cardinality(cv.dirty) > 0
    /\ Cardinality(cv.dirty) < DirtyThreshold
    /\ cv.gridH > 0

\* Variant of the mode selection whose threshold test is <= 50.
UseDirtyAtThreshold(cv, forceFull) ==
    /\ Cardinality(cv.dirty) > 0
    /\ Cardinality(cv.dirty) <= DirtyThreshold
    /\ ~forceFull
    /\ cv.gridH > 0

\* render, lines 701-704: use_dirty_render
UseDirtyRender(cv, forceFull) ==
    /\ Cardinality(cv.dirty) > 0
    /\ Cardinality(cv.dirty) < DirtyThreshold
    /\ ~forceFull
    /\ cv.gridH > 0

\* render, lines 687-693: the busy flag is taken and the timers are reset.
RenderEnter(w) ==
    [w EXCEPT !.cv.isRendering = TRUE,
              !.cv.sinceRender = 0,
              !.cv.pending = FALSE]

\* render, lines 695-846: the mode is chosen and the drawing done.
RenderBody(w, forceFull) ==
    IF UseDirtyRender(w.cv, forceFull)
    THEN RenderDirtyBlocks(w)
    ELSE FullRender(w)

\* Variant of render without the busy guard of line 688: a call made while a
\* render is in progress runs the body as well.
RenderReentrant(w, forceFull) ==
    RenderBody(RenderEnter(w), forceFull)

\* CanvasWidget.render
Render(w, forceFull) ==
    IF w.cv.isRendering THEN [w EXCEPT !.g.mode = "busy"]
    ELSE RenderBody(RenderEnter(w), forceFull)

\* CanvasWidget._schedule_render
ScheduleRender(w) ==
    IF \/ w.cv.sinceRender >= RenderDelay
       \/ Cardinality(w.cv.dirty) >= MaxBatchSize
    THEN Render(w, FALSE)
    ELSE [w EXCEPT !.cv.pending = TRUE]


\* ------------------------------------------------------------------------
\* CanvasWidget: grid cells
\* ------------------------------------------------------------------------
\* get_block_at
GetBlockAt(cv, x, y) == IF InGrid(cv, x, y) THEN cv.grid[<<x, y>>] ELSE None

\* Variant of set_block_at without the dirty mark of line 313.
SetBlockAtUnmarked(w, x, y, block, immediateRender) ==
    IF ~InGrid(w.cv, x, y) THEN w
    ELSE IF w.cv.grid[<<x, y>>] = block THEN w
    ELSE LET w1 == [w EXCEPT !.cv.grid[<<x, y>>] = block,
                             !.g.notified = @ \cup {<<x, y>>}]
         IN  IF immediateRender THEN Render(w1, FALSE) ELSE ScheduleRender(w1)

\* Variant of set_block_at that empties a cell painted with the tile it
\* holds, where lines 308-309 return.
SetBlockAtErase(w, x, y, block, immediateRender) ==
    IF ~InGrid(w.cv, x, y) THEN w
    ELSE LET w1 == [w EXCEPT
                      !.cv.grid[<<x, y>>] = IF @ = block THEN None ELSE block,
                      !.cv.dirty = @ \cup {<<x, y>>},
                      !.g.notified = @ \cup {<<x, y>>}]
         IN  IF immediateRender THEN Render(w1, FALSE) ELSE ScheduleRender(w1)

\* Variant of set_block_at whose bounds test of line 306 guards the write of
\* the cell only: a cell outside the grid is marked dirty and notified.
SetBlockAtMarkOutside(w, x, y, block, immediateRender) ==
    IF ~InGrid(w.cv, x, y)
    THEN ScheduleRender([w EXCEPT !.cv.dirty = @ \cup {<<x, y>>},
                                  !.g.notified = @ \cup {<<x, y>>}])
    ELSE IF w.cv.grid[<<x, y>>] = block THEN w
    ELSE LET w1 == [w EXCEPT !.cv.grid[<<x, y>>] = block,
                             !.cv.dirty = @ \cup {<<x, y>>},
                             !.g.notified = @ \cup {<<x, y>>}]
         IN  IF immediateRender THEN Render(w1, FALSE) ELSE ScheduleRender(w1)

\* set_block_at
SetBlockAt(w, x, y, block, immediateRender) ==
    IF ~InGrid(w.cv, x, y) THEN w
    ELSE IF w.cv.grid[<<x, y>>] = block THEN w
    ELSE LET w1 == [w EXCEPT !.cv.grid[<<x, y>>] = block,
                             !.cv.dirty = @ \cup {<<x, y>>},
                             !.g.notified = @ \cup {<<x, y>>}]
         IN  IF immediateRender THEN Render(w1, FALSE) ELSE ScheduleRender(w1)

\* _bresenham_line: the points from (x, y) on, with the running error err.
RECURSIVE BresenhamFrom(_, _, _, _, _, _, _, _, _)
BresenhamFrom(x, y, x1, y1, dx, dy, sx, sy, err) ==
    IF x = x1 /\ y = y1 THEN <<<<x, y>>>>
    ELSE LET e2 == 2 * err
             stepX == e2 > 0 - dy
             stepY == e2 < dx
             err1 == IF stepX THEN err - dy ELSE err
             err2 == IF stepY THEN err1 + dx ELSE err1
         IN  <<<<x, y>>>> \o
             BresenhamFrom(IF stepX THEN x + sx ELSE x,
                           IF stepY THEN y + sy ELSE y,
                           x1, y1, dx, dy, sx, sy, err2)

Abs(a) == IF a >= 0 THEN a ELSE 0 - a

\* Variant of _bresenham_line that appends a point after the loop's exit
\* test: the first point of the path is missing.
BresenhamLineOpen(x0, y0, x1, y1) ==
    LET dx == Abs(x1 - x0)
        dy == Abs(y1 - y0)
    IN  Tail(BresenhamFrom(x0, y0, x1, y1, dx, dy,
                           IF x0 < x1 THEN 1 ELSE 0 - 1,
                           IF y0 < y1 THEN 1 ELSE 0 - 1,
                           dx - dy))

BresenhamLine(x0, y0, x1, y1) ==
    LET dx == Abs(x1 - x0)
        dy == Abs(y1 - y0)
    IN  BresenhamFrom(x0, y0, x1, y1, dx, dy,
                      IF x0 < x1 THEN 1 ELSE 0 - 1,
                      IF y0 < y1 THEN 1 ELSE 0 - 1,
                      dx - dy)

\* draw_line_between_blocks: the cells of the line are set without a render
\* each; one render is scheduled at the end.
RECURSIVE LineCells(_, _, _)
LineCells(w, points, block) ==
    IF points = <<>> THEN w
    ELSE LET p == Head(points)
             w1 == IF InGrid(w.cv, p[1], p[2]) /\ w.cv.grid[p] # block
                   THEN [w EXCEPT !.cv.grid[p] = block,
                                  !.cv.dirty = @ \cup {p},
                                  !.g.notified = @ \cup {p}]
                   ELSE w
         IN  LineCells(w1, Tail(points), block)

DrawLineBetweenBlocks(w, x0, y0, x1, y1, block) ==
    ScheduleRender(LineCells(w, BresenhamLine(x0, y0, x1, y1), block))

\* ------------------------------------------------------------------------
\* BrushTool
\* ------------------------------------------------------------------------
\* Variant of set_brush_size without the increment of even sizes.
SetBrushSizeRaw(br, size) ==
    LET s1 == IF size < 1 THEN 1 ELSE size
    IN  [br EXCEPT !.size = s1]

\* set_brush_size
SetBrushSize(br, size) ==
    LET s1 == IF size < 1 THEN 1 ELSE size
        s2 == IF s1 % 2 = 0 THEN s1 + 1 ELSE s1
    IN  [br EXCEPT !.size = s2]

\* Variant of _get_brush_area whose radius is the whole size.
BrushAreaWide(size, cx, cy) ==
    LET r == size
        side == 2 * r + 1
    IN  [i \in 1 .. side * side |->
           <<cx - r + ((i - 1) % side), cy - r + ((i - 1) \div side)>>]

\* _get_brush_area: the positions, row by row.
BrushArea(size, cx, cy) ==
    LET r == size \div 2
        side == 2 * r + 1
    IN  [i \in 1 .. side * side |->
           <<cx - r + ((i - 1) % side), cy - r + ((i - 1) \div side)>>]

\* _paint_at, lines 77-79: the loop over positions lo..hi, in order (the
\* range is halved so that a 15 x 15 footprint needs no deep recursion).
RECURSIVE PaintRange(_, _, _, _, _)
PaintRange(w, positions, lo, hi, block) ==
    IF lo > hi THEN w
    ELSE IF lo = hi
    THEN LET p == positions[lo]
         IN  IF InGrid(w.cv, p[1], p[2])
             THEN SetBlockAt(w, p[1], p[2], block, FALSE)
             ELSE w
    ELSE LET mid == (lo + hi) \div 2
             first == PaintRange(w, positions, lo, mid, block)
         IN  \* the first half is evaluated before the second begins
             IF first.cv.gridW >= 0
             THEN PaintRange(first, positions, mid + 1, hi, block)
             ELSE first

PaintCells(w, positions, block) ==
    PaintRange(w, positions, 1, Len(positions), block)

\* _paint_at
PaintAt(w, gx, gy) ==
    IF w.cv.currentBlock = None THEN w
    ELSE ScheduleRender(
             PaintCells(w, BrushArea(w.br.size, gx, gy), w.cv.currentBlock))

\* on_mouse_down (button "left")
BrushMouseDown(w, gx, gy) ==
    PaintAt([w EXCEPT !.br.lastPaintedPos = <<gx, gy>>], gx, gy)

RECURSIVE PaintPoints(_, _)
PaintPoints(w, points) ==
    IF points = <<>> THEN w
    ELSE PaintPoints(PaintAt(w, Head(points)[1], Head(points)[2]), Tail(points))

\* Variant of on_mouse_drag without the interpolation of lines 96-104.
BrushMouseDragEndOnly(w, gx, gy) ==
    IF w.cv.currentBlock = None THEN w
    ELSE [PaintAt(w, gx, gy) EXCEPT !.br.lastPaintedPos = <<gx, gy>>]

\* on_mouse_drag (button "left")
BrushMouseDrag(w, gx, gy) ==
    IF w.cv.currentBlock = None THEN w
    ELSE LET w1 == IF w.br.lastPaintedPos # NoPos
                   THEN PaintPoints(w, BresenhamLine(w.br.lastPaintedPos[1],
                                                     w.br.lastPaintedPos[2],
                                                     gx, gy))
                   ELSE PaintAt(w, gx, gy)
         IN  [w1 EXCEPT !.br.lastPaintedPos = <<gx, gy>>]

\* on_mouse_up
BrushMouseUp(w) ==
    LET w1 == [w EXCEPT !.br.lastPaintedPos = NoPos]
    IN  IF w1.cv.dirty # {} \/ w1.cv.pending THEN Render(w1, TRUE) ELSE w1

\* ------------------------------------------------------------------------
\* PickerTool
\* ------------------------------------------------------------------------
\* Variant of _pick_block without the callback of lines 44-46.
PickBlockSilent(w, gx, gy) ==
    LET block == GetBlockAt(w.cv, gx, gy)
    IN  IF block = None THEN w
        ELSE [w EXCEPT !.cv.currentBlock = block]

\* _pick_block; on_mouse_down and on_mouse_drag are this, on_mouse_up nothing.
PickBlock(w, gx, gy) ==
    LET block == GetBlockAt(w.cv, gx, gy)
    IN  IF block = None THEN w
        ELSE [w EXCEPT !.cv.currentBlock = block,
                       !.g.picked = Append(@, block)]

\* ------------------------------------------------------------------------
\* The active tool's handlers, as the canvas calls them
\* ------------------------------------------------------------------------
ToolMouseDown(w, gx, gy) ==
    IF w.cv.activeTool = "brush" THEN BrushMouseDown(w, gx, gy)
    ELSE PickBlock(w, gx, gy)

ToolMouseDrag(w, gx, gy) ==
    IF w.cv.activeTool = "brush" THEN BrushMouseDrag(w, gx, gy)
    ELSE PickBlock(w, gx, gy)

ToolMouseUp(w) ==
    IF w.cv.activeTool = "brush" THEN BrushMouseUp(w) ELSE w


\* ------------------------------------------------------------------------
\* CanvasWidget: pointer handlers
\* ------------------------------------------------------------------------
\* _handle_draw with button "left"; no tool callback is ever installed.
HandleDraw(w, mx, my) ==
    LET gx == ScreenToGridX(w.cv, mx)
        gy == ScreenToGridY(w.cv, my)
        block == w.cv.currentBlock
    IN  IF ~InGrid(w.cv, gx, gy) \/ block = None THEN w
        ELSE LET last == w.cv.lastDrawn
                 w1 == IF last # NoCell /\ <<gx, gy>> # last
                       THEN DrawLineBetweenBlocks(w, last[1], last[2], gx, gy, block)
                       ELSE SetBlockAt(w, gx, gy, block, FALSE)
             IN  [w1 EXCEPT !.cv.lastDrawn = <<gx, gy>>]

\* _on_click, the left button being down
OnClick(w, mx, my) ==
    LET gx == ScreenToGridX(w.cv, mx)
        gy == ScreenToGridY(w.cv, my)
        w1 == [w EXCEPT !.cv.isDrawing = TRUE, !.cv.lastDrawn = <<gx, gy>>]
    IN  IF w1.cv.activeTool # None /\ InGrid(w1.cv, gx, gy)
        THEN ToolMouseDown(w1, gx, gy)
        ELSE HandleDraw(w1, mx, my)

\* Variant of _on_mouse_move without the early return of lines 1078-1079.
OnMouseMoveWhilePanning(w, mx, my, leftDown) ==
    LET gx == ScreenToGridX(w.cv, mx)
        gy == ScreenToGridY(w.cv, my)
        w1 == IF <<gx, gy>> # w.cv.hover
              THEN UpdateHoverLayer([w EXCEPT !.cv.hover = <<gx, gy>>,
                                              !.g.selection = <<gx, gy>>])
              ELSE w
    IN  IF ~leftDown THEN w1
        ELSE IF w1.cv.activeTool # None /\ InGrid(w1.cv, gx, gy)
        THEN ToolMouseDrag(w1, gx, gy)
        ELSE [HandleDraw(w1, mx, my) EXCEPT !.cv.lastDrawn = <<gx, gy>>]

\* _on_mouse_move; leftDown: the left button is held and the middle is not.
OnMouseMove(w, mx, my, leftDown) ==
    IF w.cv.isPanning THEN w
    ELSE LET gx == ScreenToGridX(w.cv, mx)
             gy == ScreenToGridY(w.cv, my)
             \* on_selection_changed(grid_x, grid_y) is kept in the history
             w1 == IF <<gx, gy>> # w.cv.hover
                   THEN UpdateHoverLayer([w EXCEPT !.cv.hover = <<gx, gy>>,
                                                   !.g.selection = <<gx, gy>>])
                   ELSE w
         IN  IF ~leftDown THEN w1
             ELSE IF w1.cv.activeTool # None /\ InGrid(w1.cv, gx, gy)
             THEN ToolMouseDrag(w1, gx, gy)
             ELSE IF w1.cv.lastDrawn # NoCell /\ w1.cv.currentBlock # None
             THEN IF <<gx, gy>> # w1.cv.lastDrawn
                  THEN [DrawLineBetweenBlocks(w1, w1.cv.lastDrawn[1],
                                              w1.cv.lastDrawn[2], gx, gy,
                                              w1.cv.currentBlock)
                          EXCEPT !.cv.lastDrawn = <<gx, gy>>]
                  ELSE w1
             ELSE [HandleDraw(w1, mx, my) EXCEPT !.cv.lastDrawn = <<gx, gy>>]

\* stop_drawing, the pointer being at (mx, my)
StopDrawing(w, mx, my) ==
    IF ~w.cv.isDrawing THEN w
    ELSE LET gx == ScreenToGridX(w.cv, mx)
             gy == ScreenToGridY(w.cv, my)
             w1 == [w EXCEPT !.cv.isDrawing = FALSE]
             w2 == IF w1.cv.activeTool # None /\ InGrid(w1.cv, gx, gy)
                   THEN ToolMouseUp(w1)
                   ELSE w1
             w3 == [w2 EXCEPT !.cv.lastDrawn = NoCell]
         IN  IF w3.cv.dirty # {} \/ w3.cv.pending THEN Render(w3, TRUE) ELSE w3

\* start_pan, the pointer being at the global position (mx, my)
StartPan(w, mx, my) ==
    [w EXCEPT !.cv.isPanning = TRUE,
              !.cv.mouseStartX = mx, !.cv.mouseStartY = my,
              !.cv.panStartX = w.cv.panX, !.cv.panStartY = w.cv.panY]

\* update_pan, the pointer being at the global position (mx, my)
UpdatePan(w, mx, my) ==
    IF ~w.cv.isPanning THEN w
    ELSE [w EXCEPT !.cv.panX = w.cv.panStartX + (mx - w.cv.mouseStartX),
                   !.cv.panY = w.cv.panStartY + (my - w.cv.mouseStartY)]

\* stop_pan
StopPan(w) ==
    IF w.cv.isPanning
    THEN Render([w EXCEPT !.cv.isPanning = FALSE], FALSE)
    ELSE [w EXCEPT !.cv.isPanning = FALSE]

\* force_stop_pan
ForceStopPan(w) ==
    IF w.cv.isPanning
    THEN Render([w EXCEPT !.cv.isPanning = FALSE], FALSE)
    ELSE w

\* ------------------------------------------------------------------------
\* CanvasWidget: grid, tool and view operations
\* ------------------------------------------------------------------------
\* A grid of the given shape, every cell holding the tile `fill`.
UniformGrid(gw, gh, fill) == [c \in Cells(gw, gh) |-> fill]

\* set_grid with a gw x gh grid (0 x 0: the empty list)
SetGrid(w, gw, gh, grid) ==
    LET w1 == IF gw = 0 \/ gh = 0
              THEN [w EXCEPT !.cv.grid = EmptyGrid, !.cv.gridW = 0, !.cv.gridH = 0]
              ELSE [w EXCEPT !.cv.grid = grid, !.cv.gridW = gw, !.cv.gridH = gh]
    IN  Render(w1, FALSE)

\* Variant of set_active_tool without the deactivation of lines 462-463.
SetActiveToolKeepOld(w, tool) ==
    LET w2 == [w EXCEPT !.cv.activeTool = tool]
    IN  IF tool = "brush" THEN [w2 EXCEPT !.br.isActive = TRUE]
        ELSE IF tool = "picker" THEN [w2 EXCEPT !.pk.isActive = TRUE]
        ELSE w2

\* set_active_tool: BaseTool.deactivate of the old tool, activate of the new
SetActiveTool(w, tool) ==
    LET w1 == IF w.cv.activeTool = "brush" THEN [w EXCEPT !.br.isActive = FALSE]
              ELSE IF w.cv.activeTool = "picker" THEN [w EXCEPT !.pk.isActive = FALSE]
              ELSE w
        w2 == [w1 EXCEPT !.cv.activeTool = tool]
    IN  IF tool = "brush" THEN [w2 EXCEPT !.br.isActive = TRUE]
        ELSE IF tool = "picker" THEN [w2 EXCEPT !.pk.isActive = TRUE]
        ELSE w2

\* set_show_grid
SetShowGrid(w, show) == Render([w EXCEPT !.cv.showGrid = show], FALSE)

\* Variant of zoom_to_fit that takes the larger of the two zooms.
ZoomToFitLarger(w) ==
    IF w.cv.gridW = 0 \/ w.cv.gridH = 0 THEN w
    ELSE LET pw == w.cv.gridW * BlockSize
             ph == w.cv.gridH * BlockSize
             zx == ((w.cv.width - FitMargin) * Scale) \div pw
             zy == ((w.cv.height - FitMargin) * Scale) \div ph
             z == Max(zx, zy)
         IN  Render([w EXCEPT !.cv.zoom = z,
                              !.cv.panX = (w.cv.width * Scale - pw * z) \div 2,
                              !.cv.panY = (w.cv.height * Scale - ph * z) \div 2],
                    FALSE)

\* zoom_to_fit
ZoomToFit(w) ==
    IF w.cv.gridW = 0 \/ w.cv.gridH = 0 THEN w
    ELSE LET pw == w.cv.gridW * BlockSize
             ph == w.cv.gridH * BlockSize
             zx == ((w.cv.width - FitMargin) * Scale) \div pw
             zy == ((w.cv.height - FitMargin) * Scale) \div ph
             z == Min(zx, zy)
         IN  Render([w EXCEPT !.cv.zoom = z,
                              !.cv.panX = (w.cv.width * Scale - pw * z) \div 2,
                              !.cv.panY = (w.cv.height * Scale - ph * z) \div 2],
                    FALSE)

\* reset_view
ResetView(w) ==
    Render([w EXCEPT !.cv.zoom = Scale, !.cv.panX = 0, !.cv.panY = 0], FALSE)

\* Variant of _adjust_pan_for_zoom that scales the pan and ignores the centre.
AdjustPanUnanchored(center, pan, oldZoom, newZoom) ==
    (pan * newZoom) \div oldZoom

\* _adjust_pan_for_zoom, one coordinate
\* (center - pan) / old_zoom * new_zoom, the product taken in two parts so
\* that it stays within 32 bits.
AdjustPan(center, pan, oldZoom, newZoom) ==
    LET d == center - pan
        q == d \div oldZoom
        r == d % oldZoom
    IN  center - (q * newZoom + ((r * newZoom) \div oldZoom))

\* set_zoom
SetZoom(w, zoom, cx, cy) ==
    LET old == w.cv.zoom
        new == Max(MinZoom, Min(MaxZoom, zoom))
    IN  IF old = new THEN w
        ELSE Render([w EXCEPT !.cv.zoom = new,
                              !.cv.panX = AdjustPan(cx, w.cv.panX, old, new),
                              !.cv.panY = AdjustPan(cy, w.cv.panY, old, new)],
                    FALSE)

\* zoom_in: the factor, in percent, by zoom level
ZoomInFactor(zoom) ==
    IF 2 * zoom < Scale THEN 130
    ELSE IF zoom < Scale THEN 125
    ELSE IF zoom < 4 * Scale THEN 120
    ELSE 115

\* zoom_out: the factor, in percent, by zoom level
ZoomOutFactor(zoom) ==
    IF 2 * zoom < Scale THEN 77
    ELSE IF zoom < Scale THEN 80
    ELSE IF zoom < 4 * Scale THEN 83
    ELSE 87

\* set_zoom, lines 343-346: the default centre
CenterX(cv) == (cv.width * Scale) \div 2
CenterY(cv) == (cv.height * Scale) \div 2

ZoomIn(w) ==
    SetZoom(w, (w.cv.zoom * ZoomInFactor(w.cv.zoom)) \div 100, CenterX(w.cv), CenterY(w.cv))

ZoomOut(w) ==
    SetZoom(w, (w.cv.zoom * ZoomOutFactor(w.cv.zoom)) \div 100, CenterX(w.cv), CenterY(w.cv))


\* ------------------------------------------------------------------------
\* Initial state: CanvasWidget.__init__, BrushTool.__init__, PickerTool.__init__
\* ------------------------------------------------------------------------
NoTouch == [cells |-> {}, borders |-> {}, lines |-> FALSE, hover |-> FALSE,
            text |-> FALSE]

\* What an operation found when it began: the selected tile, the brush's
\* _last_painted_pos, _is_drawing, and the view.
NoPre == [block |-> None, anchor |-> NoPos, drawing |-> FALSE,
          panning |-> FALSE, zoom |-> 0, panX |-> 0, panY |-> 0]

\* The history of an operation that has just begun.
G0(op) ==
    [op |-> op, mode |-> "none", force |-> FALSE, cleared |-> {},
     preDirty |-> {}, touched |-> NoTouch, changed |-> {},
     arg |-> <<>>, picked |-> <<>>, notified |-> {}, selection |-> <<>>,
     hoverRedrawn |-> FALSE, progress |-> <<>>,
     pre |-> NoPre]

InitCanvas ==
    [width |-> CanvasW, height |-> CanvasH,
     grid |-> EmptyGrid, gridW |-> 0, gridH |-> 0,
     zoom |-> Scale, panX |-> 0, panY |-> 0,
     isPanning |-> FALSE, isDrawing |-> FALSE,
     panStartX |-> 0, panStartY |-> 0, mouseStartX |-> 0, mouseStartY |-> 0,
     hover |-> NoCell, lastDrawn |-> NoCell,
     showGrid |-> TRUE, currentBlock |-> None, activeTool |-> None,
     isRendering |-> FALSE, pending |-> FALSE, dirty |-> {},
     \* _last_render_time = _last_hover_render_time = 0.0: both delays elapsed
     sinceRender |-> RenderDelay, sinceHover |-> HoverDelay]

InitBrush == [isActive |-> FALSE, size |-> 1, lastPaintedPos |-> NoPos]

InitPicker == [isActive |-> FALSE]

InitEnv == [left |-> FALSE, middle |-> FALSE, tick |-> "idle", steps |-> 0]

\* The reference run starts from the same construction; d counts the dirty
\* renders the observed run made since the operation that followed its last
\* full render.
InitRef == [cv |-> InitCanvas, scr |-> ClearedScreen, d |-> 0]

Init ==
    /\ canvas = InitCanvas
    /\ brush = InitBrush
    /\ picker = InitPicker
    /\ scr = ClearedScreen
    /\ env = InitEnv
    /\ g = G0("init")
    /\ ref = InitRef

\* ------------------------------------------------------------------------
\* The steps of the program, by input
\* ------------------------------------------------------------------------
Start(op) == [World EXCEPT !.g = G0(op)]

Apply(w) ==
    /\ canvas' = w.cv
    /\ brush' = w.br
    /\ picker' = w.pk
    /\ scr' = w.scr
    /\ g' = w.g

\* Where the pointer is when it is over the middle of cell c of the grid
\* as the current view lays it out (c may lie outside the grid).
PointerAt(cv, c) ==
    <<cv.panX + (2 * c[1] + 1) * (BlockSize \div 2) * cv.zoom,
      cv.panY + (2 * c[2] + 1) * (BlockSize \div 2) * cv.zoom>>

\* The cell screen_to_grid gives for that pointer position.
PointedCell(cv, c) ==
    <<ScreenToGridX(cv, PointerAt(cv, c)[1]), ScreenToGridY(cv, PointerAt(cv, c)[2])>>

\* The places of the drawlist at which screens a and b differ.
Touched(a, b) ==
    [cells |-> {c \in (DOMAIN a.drawn) \cup (DOMAIN b.drawn) :
                  \/ c \notin DOMAIN a.drawn
                  \/ c \notin DOMAIN b.drawn
                  \/ a.drawn[c] # b.drawn[c]},
     borders |-> (a.borders \ b.borders) \cup (b.borders \ a.borders),
     lines |-> a.lines # b.lines,
     hover |-> a.hover # b.hover,
     text |-> a.text # b.text]

\* The cells at which grids a and b (of one shape) differ.
Changed(a, b) ==
    IF DOMAIN a # DOMAIN b THEN (DOMAIN a) \cup (DOMAIN b)
    ELSE {c \in DOMAIN a : a[c] # b[c]}

\* The clock advances by TimeStep ms.
TimePassesStep ==
    /\ canvas.sinceRender < RenderDelay \/ canvas.sinceHover < HoverDelay
    /\ canvas' = [canvas EXCEPT
                    !.sinceRender = Min(@ + TimeStep, RenderDelay),
                    !.sinceHover = Min(@ + TimeStep, HoverDelay)]
    /\ UNCHANGED <<brush, picker, scr, env, g>>

\* The host calls canvas.render(force_full).
RenderCallWith(force) ==
    LET w == Render([Start("render") EXCEPT !.g.force = force,
                                            !.g.preDirty = canvas.dirty],
                    force)
    IN  /\ Apply([w EXCEPT !.g.touched = Touched(scr, w.scr)])
        /\ UNCHANGED env

\* application.run: a pending render is due and the main loop enters render.
TickBeginStep ==
    /\ env.tick = "idle"
    /\ ~canvas.isPanning
    /\ canvas.pending
    /\ canvas.sinceRender >= RenderDelay
    /\ ~canvas.isRendering
    /\ Apply(RenderEnter(Start("tick_begin")))
    /\ env' = [env EXCEPT !.tick = "rendering"]

\* application.run: the render the main loop entered completes.
TickEndStep ==
    /\ env.tick = "rendering"
    /\ Apply(RenderBody([Start("tick") EXCEPT !.g.preDirty = canvas.dirty], FALSE))
    /\ env' = [env EXCEPT !.tick = "idle"]

SetGridTo(shape, fill) ==
    /\ Apply(SetGrid(Start("set_grid"), shape[1], shape[2],
                     UniformGrid(shape[1], shape[2], fill)))
    /\ UNCHANGED env

SetCurrentBlockTo(b) ==
    /\ canvas.currentBlock # b
    /\ Apply([Start("set_current_block") EXCEPT !.cv.currentBlock = b])
    /\ UNCHANGED env

SetActiveToolTo(t) ==
    /\ Apply(SetActiveTool([Start("set_active_tool") EXCEPT
                                !.g.arg = <<canvas.activeTool, t>>,
                                !.g.pre.anchor = brush.lastPaintedPos],
                           t))
    /\ UNCHANGED env

\* BrushTool.set_brush_size(n), called on the tool
SetBrushSizeTo(n) ==
    /\ Apply([Start("set_brush_size") EXCEPT !.br = SetBrushSize(brush, n),
                                             !.g.arg = <<n>>])
    /\ UNCHANGED env

\* application._on_brush_size_changed: the slider, clamped to 1..15
SliderTo(value) ==
    /\ canvas.activeTool = "brush"
    /\ LET v == IF value % 2 = 0
                THEN (IF value < 15 THEN value + 1 ELSE value - 1)
                ELSE value
       IN  Apply([Start("slider") EXCEPT !.br = SetBrushSize(brush, v),
                                         !.g.arg = <<value>>])
    /\ UNCHANGED env

\* application._set_brush_size: a quick-select button
QuickSelectTo(size) ==
    /\ canvas.activeTool = "brush"
    /\ Apply([Start("quick_select") EXCEPT !.br = SetBrushSize(brush, size),
                                           !.g.arg = <<size>>])
    /\ UNCHANGED env

\* application._toggle_grid
ToggleGridStep ==
    /\ Apply(SetShowGrid(Start("set_show_grid"), ~canvas.showGrid))
    /\ UNCHANGED env

\* The view an operation finds, for its history.
PreView(op) ==
    [Start(op) EXCEPT !.g.pre.zoom = canvas.zoom,
                      !.g.pre.panX = canvas.panX,
                      !.g.pre.panY = canvas.panY]

ZoomToFitStep ==
    /\ Apply(ZoomToFit(PreView("zoom_to_fit")))
    /\ UNCHANGED env

ResetViewStep ==
    /\ Apply(ResetView(Start("reset_view")))
    /\ UNCHANGED env

\* The left button goes down with the pointer over cell c: _on_click.
ClickAt(c) ==
    LET p == PointerAt(canvas, c)
        w == OnClick([Start("press") EXCEPT !.g.arg = PointedCell(canvas, c),
                                            !.g.preDirty = canvas.dirty,
                                            !.g.pre.block = canvas.currentBlock],
                     p[1], p[2])
    IN  /\ scr.exists
        /\ ~env.left
        /\ Apply([w EXCEPT !.g.changed = Changed(canvas.grid, w.cv.grid)])
        /\ env' = [env EXCEPT !.left = TRUE]

\* The left button goes down away from the canvas: no handler runs.
PressOutsideStep ==
    /\ ~env.left
    /\ env' = [env EXCEPT !.left = TRUE]
    /\ g' = G0("press_outside")
    /\ UNCHANGED <<canvas, brush, picker, scr>>

\* The pointer is over cell c of the canvas: _on_mouse_move.
MouseMoveTo(c) ==
    LET p == PointerAt(canvas, c)
        w == OnMouseMove([Start("move") EXCEPT
                              !.g.arg = PointedCell(canvas, c),
                              !.g.preDirty = canvas.dirty,
                              !.g.pre.block = canvas.currentBlock,
                              !.g.pre.anchor = brush.lastPaintedPos,
                              !.g.pre.drawing = env.left],
                         p[1], p[2], env.left)
    IN  /\ scr.exists
        /\ Apply([w EXCEPT !.g.changed = Changed(canvas.grid, w.cv.grid)])
        /\ UNCHANGED env

\* The left button is released with the pointer over cell c:
\* application._on_draw_stop.
ReleaseAt(c) ==
    LET p == PointerAt(canvas, c) IN
    /\ env.left
    /\ Apply(StopDrawing([Start("release") EXCEPT
                              !.g.arg = PointedCell(canvas, c),
                              !.g.preDirty = canvas.dirty,
                              !.g.pre.block = canvas.currentBlock,
                              !.g.pre.anchor = brush.lastPaintedPos,
                              !.g.pre.drawing = canvas.isDrawing],
                         p[1], p[2]))
    /\ env' = [env EXCEPT !.left = FALSE]

\* zoom_in and zoom_out, at most MaxZoomSteps of them in a run.
ZoomInStep ==
    /\ env.steps < MaxZoomSteps
    /\ Apply(ZoomIn([PreView("zoom_in") EXCEPT
                         !.g.arg = <<(canvas.zoom * ZoomInFactor(canvas.zoom)) \div 100,
                                     CenterX(canvas), CenterY(canvas)>>]))
    /\ env' = [env EXCEPT !.steps = @ + 1]

ZoomOutStep ==
    /\ env.steps < MaxZoomSteps
    /\ Apply(ZoomOut([PreView("zoom_out") EXCEPT
                          !.g.arg = <<(canvas.zoom * ZoomOutFactor(canvas.zoom)) \div 100,
                                      CenterX(canvas), CenterY(canvas)>>]))
    /\ env' = [env EXCEPT !.steps = @ + 1]

\* set_zoom(zoom) with the default centre
SetZoomTo(zoom) ==
    /\ Apply(SetZoom([PreView("set_zoom") EXCEPT
                          !.g.arg = <<zoom, CenterX(canvas), CenterY(canvas)>>],
                     zoom, CenterX(canvas), CenterY(canvas)))
    /\ UNCHANGED env

\* set_zoom(zoom, cx, cy), counted with the zoom steps
SetZoomAt(zoom, cx, cy) ==
    /\ env.steps < MaxZoomSteps
    /\ Apply(SetZoom([PreView("set_zoom") EXCEPT !.g.arg = <<zoom, cx, cy>>],
                     zoom, cx, cy))
    /\ env' = [env EXCEPT !.steps = @ + 1]

\* The screen point k half tiles right of (below) the grid's origin.
HalfTilePoint(cv, kx, ky) ==
    <<cv.panX + kx * (BlockSize \div 2) * cv.zoom,
      cv.panY + ky * (BlockSize \div 2) * cv.zoom>>

\* screen_to_grid(sx, sy); the history keeps the point and the result.
ScreenToGridAt(p) ==
    /\ Apply([Start("screen_to_grid") EXCEPT
                 !.g.arg = <<p[1], p[2], ScreenToGridX(canvas, p[1]),
                             ScreenToGridY(canvas, p[2])>>])
    /\ UNCHANGED env

\* BrushTool.on_mouse_down(canvas, c, "left"), called on the tool.
BrushDownAt(c) ==
    LET w == BrushMouseDown([Start("paint") EXCEPT !.g.arg = c,
                                                   !.g.preDirty = canvas.dirty],
                            c[1], c[2])
    IN  /\ Apply([w EXCEPT !.g.changed = Changed(canvas.grid, w.cv.grid)])
        /\ UNCHANGED env

\* The view and the pan flag an operation finds, with the dirty set.
PrePan(op) ==
    [PreView(op) EXCEPT !.g.pre.panning = canvas.isPanning,
                        !.g.preDirty = canvas.dirty]

\* The middle button goes down over the canvas, the pointer being at the
\* global position m: application._on_pan_start.
PanStartAt(m) ==
    /\ ~env.middle
    /\ ~canvas.isPanning
    /\ env.steps < MaxPans
    /\ Apply(StartPan(PrePan("start_pan"), m[1], m[2]))
    /\ env' = [env EXCEPT !.middle = TRUE, !.steps = @ + 1]

\* The pointer moves to the global position m: application._on_mouse_move.
PanMoveTo(m) ==
    /\ canvas.isPanning
    /\ Apply(IF env.middle
             THEN UpdatePan(PrePan("update_pan"), m[1], m[2])
             ELSE ForceStopPan(PrePan("force_stop_pan")))
    /\ UNCHANGED env

\* The middle button is released: application._on_pan_stop.
PanStopStep ==
    /\ env.middle
    /\ Apply(StopPan(PrePan("stop_pan")))
    /\ env' = [env EXCEPT !.middle = FALSE]

\* The middle button is released and the release event is not delivered.
PanReleaseMissedStep ==
    /\ env.middle
    /\ env' = [env EXCEPT !.middle = FALSE]
    /\ g' = G0("release_missed")
    /\ UNCHANGED <<canvas, brush, picker, scr>>

\* application.run, one iteration of the main loop while the canvas is
\* panning: canvas._last_pan_render_time is read, an attribute no code
\* defines, and the AttributeError ends the main loop.
PanTickStep ==
    /\ canvas.isPanning
    /\ env' = [env EXCEPT !.tick = "crashed"]
    /\ g' = G0("crash")
    /\ UNCHANGED <<canvas, brush, picker, scr>>

\* The drawlist is torn down.
TargetDestroyedStep ==
    /\ scr.exists
    /\ scr' = GoneScreen
    /\ g' = G0("target_destroyed")
    /\ UNCHANGED <<canvas, brush, picker, env>>

\* ------------------------------------------------------------------------
\* Specification Spec: the rendering engine.  Cells are edited through
\* set_block_at, renders come from _schedule_render, from the host, and from
\* the main loop's tick, which the callbacks can interleave with.
\* ------------------------------------------------------------------------
\* The host calls canvas.set_block_at(x, y, block) (immediate_render False).
SetBlockTo(c, b) ==
    LET w == SetBlockAt([Start("set_block_at") EXCEPT !.g.arg = c,
                                                      !.g.preDirty = canvas.dirty],
                        c[1], c[2], b, FALSE)
    IN  /\ Apply([w EXCEPT !.g.changed = Changed(canvas.grid, w.cv.grid)])
        /\ UNCHANGED env

RenderShapes == {<<0, 0>>, <<MaxW, MaxH>>}
RenderCells == {<<0, 0>>, <<MaxW - 1, MaxH - 1>>, <<MaxW, 0>>}

TimePasses == TimePassesStep /\ UNCHANGED ref
RenderCall == (\E force \in BOOLEAN : RenderCallWith(force)) /\ UNCHANGED ref
TickBegin == TickBeginStep /\ UNCHANGED ref
TickEnd == TickEndStep /\ UNCHANGED ref
DoSetGrid == (\E shape \in RenderShapes : SetGridTo(shape, "stone")) /\ UNCHANGED ref
SetBlock == (\E c \in RenderCells, b \in Tiles : SetBlockTo(c, b)) /\ UNCHANGED ref
TargetDestroyed == TargetDestroyedStep /\ UNCHANGED ref

Next ==
    \/ TimePasses
    \/ RenderCall
    \/ TickBegin
    \/ TickEnd
    \/ DoSetGrid
    \/ SetBlock
    \/ TargetDestroyed

Spec == Init /\ [][Next]_vars

\* The operations of Spec whose last statement is a call of render.
RenderLastOps == {"render", "tick", "set_grid"}

\* A render call ran to its return (it was not turned away by the busy flag).
RenderRan == g.mode \notin {"none", "busy"}

\* C1: the dirty set is empty when a render call that actually ran returns,
\* in full and in dirty mode, forced or not, also with an empty grid or with
\* the draw target gone.
C1_DirtyEmptyAfterRender ==
    (g.op \in RenderLastOps /\ RenderRan) => canvas.dirty = {}

\* C5: a render call made while the busy flag is set draws nothing and leaves
\* the dirty set as it was, and the busy flag is set exactly while a render
\* is executing: every exit path of render releases it.
C5_BusyFlag ==
    /\ (g.op = "render" /\ g.mode = "busy") =>
          /\ g.touched = NoTouch
          /\ canvas.dirty = g.preDirty
          /\ canvas.isRendering
    /\ canvas.isRendering <=> (env.tick = "rendering")

\* C5 witness: the host called render while the main loop's render was in
\* progress, with cells waiting in the dirty set.
C5_Witness ==
    /\ g.op = "render"
    /\ g.mode = "busy"
    /\ canvas.dirty # {}
    /\ env.tick = "rendering"

\* ------------------------------------------------------------------------
\* Specification SpecHover: the pointer hovers over the canvas (no button
\* held) while the host renders, loads grids and selects tools.
\* ------------------------------------------------------------------------
HoverCells == {<<0, 0>>, <<MaxW - 1, MaxH - 1>>, <<MaxW, 0>>}
HoverTools == {"brush", "picker"}
HoverSizes == {1, 3}

MouseMove == (\E c \in HoverCells : MouseMoveTo(c)) /\ UNCHANGED ref
SelectTool == (\E t \in HoverTools : SetActiveToolTo(t)) /\ UNCHANGED ref
QuickSelect == (\E size \in HoverSizes : QuickSelectTo(size)) /\ UNCHANGED ref

NextHover ==
    \/ TimePasses
    \/ RenderCall
    \/ DoSetGrid
    \/ MouseMove
    \/ SelectTool
    \/ QuickSelect

SpecHover == Init /\ [][NextHover]_vars

\* What the user sees of a drawlist: the tiles and where they are, whether
\* grid lines are shown, the hover highlight and the "no image" text.
Visual(s) ==
    [tiles |-> s.drawn, lines |-> s.lines # NoItem \/ s.borders # {},
     hover |-> s.hover, text |-> s.text]

\* C2: calling render a second time, with no state change since the first
\* call returned and whatever the time elapsed in between, leaves the same
\* visual result (tiles, grid lines, hover highlight) as the first call left.
C2_RenderIdempotent ==
    [][(/\ g.op = "render" /\ RenderRan
        /\ g'.op = "render" /\ g'.force = g.force /\ g'.mode \notin {"none", "busy"})
       => Visual(scr') = Visual(scr)]_vars

\* The s-by-s square of cells centred on the hover cell, s being the size
\* of the active brush, or 1 when the active tool has no brush size.
HoverSquare ==
    LET s == IF canvas.activeTool = "brush" THEN brush.size ELSE 1
    IN  {c \in ((canvas.hover[1] - s) .. (canvas.hover[1] + s)) \X
               ((canvas.hover[2] - s) .. (canvas.hover[2] + s)) :
            /\ 2 * Abs(c[1] - canvas.hover[1]) < s
            /\ 2 * Abs(c[2] - canvas.hover[2]) < s}

\* C23, as stated: whenever the hover layer is redrawn, the highlighted
\* cells are exactly the in-bounds cells of the brush's s-by-s square
\* centred on the hover cell (the single hover cell when the active tool has
\* no brush size), the previous highlight being removed.  The marker
\* (-1, -1) the hover cell holds before the pointer is first seen is not
\* counted as a hovered cell.
C23_HoverFootprintAnyCell ==
    (g.hoverRedrawn /\ canvas.hover # NoCell) =>
        scr.hover = HoverSquare \cap Cells(canvas.gridW, canvas.gridH)

\* C23, amended: whenever the hover layer is redrawn with the hover cell
\* inside the grid, the highlighted cells are exactly the in-bounds cells of
\* the brush's s-by-s square centred on it (the single hover cell when the
\* active tool has no brush size); with the hover cell outside the grid no
\* cell is highlighted.  The previous highlight is removed in both cases.
C23_HoverFootprint ==
    g.hoverRedrawn =>
        scr.hover = IF InGrid(canvas, canvas.hover[1], canvas.hover[2])
                    THEN HoverSquare \cap Cells(canvas.gridW, canvas.gridH)
                    ELSE {}

\* C23 witness: the hover layer was redrawn with a brush of size 3 over a
\* corner cell, a highlight of another shape having been on screen before.
C23_Witness ==
    /\ g.hoverRedrawn
    /\ canvas.activeTool = "brush"
    /\ brush.size = 3
    /\ canvas.hover = <<MaxW - 1, MaxH - 1>>
    /\ g.touched.hover \/ g.op = "move"
    /\ Cardinality(scr.hover) = 4

\* ------------------------------------------------------------------------
\* Specification SpecEquiv: the observed run edits cells and lets the
\* program choose its renders; beside it a reference run makes the same
\* edits, each followed by a forced full render.
\* ------------------------------------------------------------------------
MaxEdits == 2

RefWorld ==
    [cv |-> ref.cv, br |-> brush, pk |-> picker, scr |-> ref.scr, g |-> G0("ref")]

\* The reference run moves to world w; the counter follows the mode of the
\* render the observed run has just made.
RefTrack(w) ==
    LET d == IF g.mode = "full" THEN 0 ELSE ref.d
    IN  ref' = [cv |-> w.cv, scr |-> w.scr,
                d |-> IF g'.mode = "dirty" THEN Min(d + 1, MaxEdits)
                      ELSE IF g'.mode = "full" THEN ref.d
                      ELSE d]

EqRenderCall == (\E force \in BOOLEAN : RenderCallWith(force)) /\ RefTrack(RefWorld)
EqSetGrid ==
    /\ SetGridTo(<<MaxW, MaxH>>, "stone")
    /\ RefTrack(SetGrid(RefWorld, MaxW, MaxH, UniformGrid(MaxW, MaxH, "stone")))
EqEdit ==
    \E c \in RenderCells, b \in Tiles :
        /\ SetBlockTo(c, b)
        /\ RefTrack(Render(SetBlockAt(RefWorld, c[1], c[2], b, FALSE), TRUE))
EqZoomToFit == ZoomToFitStep /\ RefTrack(ZoomToFit(RefWorld))

NextEquiv ==
    \/ TimePasses
    \/ EqRenderCall
    \/ EqSetGrid
    \/ EqEdit
    \/ EqZoomToFit

SpecEquiv == Init /\ [][NextEquiv]_vars

\* The host's forced full render has just run on a loaded grid.
ForcedRenderRan ==
    /\ g.op = "render" /\ g.force /\ RenderRan
    /\ canvas.gridH > 0

\* C3: after any sequence of cell edits rendered through dirty renders, a
\* forced full render shows the same visible grid as the run that made the
\* same edits with a full render after each of them.
C3_DirtyRenderEquivalence ==
    ForcedRenderRan => Visual(scr) = Visual(ref.scr)

\* C3 witness: a forced full render that followed at least two dirty renders
\* and shows a tile that an edit put there.
C3_Witness ==
    /\ ForcedRenderRan
    /\ ref.d >= 2
    /\ \E c \in DOMAIN scr.drawn : scr.drawn[c][1] = "dirt"

\* ------------------------------------------------------------------------
\* Specification SpecPaint: the user selects a tile, the brush and its size
\* and presses the left button over cells of a loaded grid.
\* ------------------------------------------------------------------------
PaintCentres == {<<0, 0>>, <<MaxW - 1, MaxH - 1>>, <<MaxW, 0>>}
PaintSizes == {1, 3}

LoadGrid == SetGridTo(<<MaxW, MaxH>>, "stone") /\ UNCHANGED ref
SelectTile == (\E b \in Tiles : SetCurrentBlockTo(b)) /\ UNCHANGED ref
SelectBrush == SetActiveToolTo("brush") /\ UNCHANGED ref
SelectSize == (\E size \in PaintSizes : QuickSelectTo(size)) /\ UNCHANGED ref
Press == (\E c \in PaintCentres : ClickAt(c)) /\ UNCHANGED ref
Release == (\E c \in PaintCentres : ReleaseAt(c)) /\ UNCHANGED ref

NextPaint ==
    \/ TimePasses
    \/ LoadGrid
    \/ SelectTile
    \/ SelectBrush
    \/ SelectSize
    \/ Press
    \/ Release

SpecPaint == Init /\ [][NextPaint]_vars

\* The brush has just painted at the centre g.arg: the press went to
\* BrushTool.on_mouse_down, which calls _paint_at once.
BrushPainted ==
    /\ g.op = "press"
    /\ canvas.activeTool = "brush"
    /\ InGrid(canvas, g.arg[1], g.arg[2])

\* The square footprint of side brush.size around the centre g.arg.
Footprint ==
    {c \in ((g.arg[1] - brush.size) .. (g.arg[1] + brush.size)) \X
           ((g.arg[2] - brush.size) .. (g.arg[2] + brush.size)) :
        /\ Abs(c[1] - g.arg[1]) <= brush.size \div 2
        /\ Abs(c[2] - g.arg[2]) <= brush.size \div 2}

\* C9: after the brush paints at a centre with size s and selected tile T,
\* every in-bounds cell of the s x s square holds T, every cell outside the
\* square is unchanged, the cells of the square outside the grid are skipped
\* (the grid keeps its shape), and with no selected tile nothing changes.
C9_BrushFootprint ==
    BrushPainted =>
        /\ DOMAIN canvas.grid = Cells(canvas.gridW, canvas.gridH)
        /\ g.changed \subseteq Footprint
        /\ canvas.currentBlock # None =>
              \A c \in Footprint \cap DOMAIN canvas.grid :
                  canvas.grid[c] = canvas.currentBlock
        /\ canvas.currentBlock = None => g.changed = {}

\* C9 witness: a 3 x 3 brush painted at a corner: part of the square lies
\* outside the grid, cells changed, and cells outside the square exist.
C9_Witness ==
    /\ BrushPainted
    /\ brush.size = 3
    /\ Footprint \ DOMAIN canvas.grid # {}
    /\ Cardinality(g.changed) >= 2
    /\ DOMAIN canvas.grid \ Footprint # {}

BigW == 10
BigH == 5
BigSize == 15
BigCentres == {<<BigW \div 2, BigH \div 2>>}

BigLoadGrid == SetGridTo(<<BigW, BigH>>, "stone") /\ UNCHANGED ref
BigBrushSize == SetBrushSizeTo(BigSize) /\ UNCHANGED ref
BigPaint == (\E c \in BigCentres : BrushDownAt(c)) /\ UNCHANGED ref

NextBig ==
    \/ TimePasses
    \/ RenderCall
    \/ BigLoadGrid
    \/ SelectTile
    \/ BigBrushSize
    \/ BigPaint

SpecBig == Init /\ [][NextBig]_vars

\* What a full render leaves of the grid: every visible cell, showing its
\* tile at the current view, and no border of an earlier dirty render.
FullyDrawn ==
    /\ DOMAIN scr.drawn = VisibleCells(canvas)
    /\ \A c \in DOMAIN scr.drawn : scr.drawn[c] = <<canvas.grid[c]>> \o View(canvas)
    /\ scr.borders = {}

\* C4: a render call that is forced, or that finds fifty or more cells in
\* the dirty set, clears the canvas and redraws every visible cell; a render
\* call that is not forced and finds between one and forty-nine dirty cells
\* on a loaded grid redraws the dirty cells only and touches no other item.
C4_RenderModeSelection ==
    (g.op = "render" /\ RenderRan) =>
        /\ (g.force \/ Cardinality(g.preDirty) >= DirtyThreshold) =>
              /\ g.mode \in {"full", "empty"}
              /\ canvas.gridH > 0 => FullyDrawn
              /\ canvas.gridH = 0 => scr.drawn = EmptyDrawn
        /\ (/\ ~g.force
            /\ g.preDirty # {}
            /\ Cardinality(g.preDirty) < DirtyThreshold
            /\ canvas.gridH > 0) =>
              /\ g.mode = "dirty"
              /\ g.touched.cells \subseteq g.preDirty
              /\ g.touched.borders \subseteq g.preDirty
              /\ ~g.touched.lines /\ ~g.touched.hover /\ ~g.touched.text
              /\ \A c \in g.preDirty :
                    scr.drawn[c] = <<canvas.grid[c]>> \o View(canvas)

\* C4 witness: an unforced render call found exactly fifty dirty cells and
\* rendered in full.
C4_Witness ==
    /\ g.op = "render"
    /\ ~g.force
    /\ Cardinality(g.preDirty) = DirtyThreshold
    /\ g.mode = "full"

\* An unforced render call found forty-nine dirty cells and rendered them
\* in dirty mode.
C4_DirtyBelowThreshold ==
    /\ g.op = "render"
    /\ ~g.force
    /\ Cardinality(g.preDirty) = DirtyThreshold - 1
    /\ g.mode = "dirty"

\* ------------------------------------------------------------------------
\* Specification SpecView: grids of several shapes are loaded and the view
\* is zoomed, fitted and reset.
\* ------------------------------------------------------------------------
ViewShapes == {<<1, 1>>, <<MaxW, MaxH>>}
ViewZooms == {MinZoom \div 2, 30 * Scale, 2 * MaxZoom}

ViewLoadGrid == (\E shape \in ViewShapes : SetGridTo(shape, "stone")) /\ UNCHANGED ref
DoZoomIn == ZoomInStep /\ UNCHANGED ref
DoZoomOut == ZoomOutStep /\ UNCHANGED ref
DoSetZoom == (\E z \in ViewZooms : SetZoomTo(z)) /\ UNCHANGED ref
DoZoomToFit == ZoomToFitStep /\ UNCHANGED ref
DoResetView == ResetViewStep /\ UNCHANGED ref

NextView ==
    \/ TimePasses
    \/ ViewLoadGrid
    \/ DoZoomIn
    \/ DoZoomOut
    \/ DoSetZoom
    \/ DoZoomToFit
    \/ DoResetView

SpecView == Init /\ [][NextView]_vars

\* C6: after any sequence of set_zoom, zoom_in, zoom_out, zoom_to_fit and
\* reset_view, on any grid, the zoom level lies in [0.1, 32.0].
C6_ZoomClamped ==
    /\ MinZoom <= canvas.zoom
    /\ canvas.zoom <= MaxZoom

\* ------------------------------------------------------------------------
\* Specification SpecBrushSize: the brush size is set on the tool, by the
\* slider and by the quick-select buttons, and read by the hover highlight
\* when the pointer moves over a loaded grid.
\* ------------------------------------------------------------------------
SizeArgs == MinSizeArg .. MaxSizeArg
SliderValues == 1 .. BigSize
QuickSizes == {1, 3, 5, 7, 9}

DoSetBrushSize == (\E n \in SizeArgs : SetBrushSizeTo(n)) /\ UNCHANGED ref
Slider == (\E v \in SliderValues : SliderTo(v)) /\ UNCHANGED ref
QuickSize == (\E size \in QuickSizes : QuickSelectTo(size)) /\ UNCHANGED ref

NextBrushSize ==
    \/ DoSetBrushSize
    \/ Slider
    \/ QuickSize
    \/ SelectTool
    \/ LoadGrid
    \/ MouseMove

SpecBrushSize == Init /\ [][NextBrushSize]_vars

\* set_brush_size(n) has just been called on the tool.
SizeSet == g.op = "set_brush_size"

\* C7: for every integer n >= 1, after set_brush_size(n) the stored size is
\* odd and within [1, 15], an even n being stored as an adjacent odd value.
C7_BrushSizeNormalized ==
    (SizeSet /\ g.arg[1] >= 1) =>
        /\ brush.size % 2 = 1
        /\ 1 <= brush.size /\ brush.size <= BigSize
        /\ g.arg[1] % 2 = 0 => Abs(brush.size - g.arg[1]) = 1

\* C8 as stated: the brush size is odd and >= 1 at every state, and after
\* set_brush_size(n) with any even n the size is n + 1.
C8_EvenIncremented ==
    /\ brush.size % 2 = 1
    /\ brush.size >= 1
    /\ (SizeSet /\ g.arg[1] % 2 = 0) => brush.size = g.arg[1] + 1

\* C8 amended: the brush size is odd and >= 1 at every state; after
\* set_brush_size(n) it is 1 when n < 1, n + 1 when n is even and >= 1, and
\* n when n is odd and >= 1.
C8_BrushSizeOdd ==
    /\ brush.size % 2 = 1
    /\ brush.size >= 1
    /\ SizeSet =>
          brush.size = IF g.arg[1] < 1 THEN 1
                       ELSE IF g.arg[1] % 2 = 0 THEN g.arg[1] + 1
                       ELSE g.arg[1]

\* C8 witness: set_brush_size was called with an even size of at least 2
\* and the size stored is the next odd number.
C8_Witness ==
    /\ SizeSet
    /\ g.arg[1] >= 2
    /\ g.arg[1] % 2 = 0
    /\ brush.size = g.arg[1] + 1

\* ------------------------------------------------------------------------
\* Specification SpecStroke: brush strokes.  The user selects a tile, the
\* brush and its size, presses the left button over a cell of a loaded grid,
\* drags with the button held and releases.
\* ------------------------------------------------------------------------
StrokeCells == {<<0, 0>>, <<MaxW - 1, MaxH - 1>>}

StrokeTile == SetCurrentBlockTo("dirt") /\ UNCHANGED ref
StrokePress == (\E c \in StrokeCells : ClickAt(c)) /\ UNCHANGED ref
StrokeDrag == (env.left /\ \E c \in StrokeCells : MouseMoveTo(c)) /\ UNCHANGED ref
StrokeRelease == (\E c \in StrokeCells : ReleaseAt(c)) /\ UNCHANGED ref

NextStroke ==
    \/ LoadGrid
    \/ StrokeTile
    \/ SelectBrush
    \/ SelectSize
    \/ StrokePress
    \/ StrokeDrag
    \/ StrokeRelease

SpecStroke == Init /\ [][NextStroke]_vars

\* The brush has just been dragged, the left button held, from the cell
\* g.pre.anchor where it last painted onto the in-bounds cell g.arg.
BrushDragged ==
    /\ g.op = "move"
    /\ g.pre.drawing
    /\ canvas.activeTool = "brush"
    /\ InGrid(canvas, g.arg[1], g.arg[2])
    /\ g.pre.anchor # NoPos
    /\ canvas.currentBlock # None

\* The path of the drag.
DragPath ==
    BresenhamLine(g.pre.anchor[1], g.pre.anchor[2], g.arg[1], g.arg[2])

\* The square footprint of side brush.size around p.
FootprintAt(p) ==
    {c \in ((p[1] - brush.size) .. (p[1] + brush.size)) \X
           ((p[2] - brush.size) .. (p[2] + brush.size)) :
        /\ Abs(c[1] - p[1]) <= brush.size \div 2
        /\ Abs(c[2] - p[2]) <= brush.size \div 2}

\* C11: when the brush is dragged from the cell A it last painted to a cell
\* B, the path from A to B starts at A, ends at B and has no gap (each point
\* is a neighbour of the one before), and every in-bounds cell of the
\* footprint around each point of the path holds the selected tile.
C11_LineInterpolation ==
    BrushDragged =>
        /\ DragPath[1] = g.pre.anchor
        /\ DragPath[Len(DragPath)] = g.arg
        /\ \A i \in 1 .. Len(DragPath) - 1 :
              /\ Abs(DragPath[i + 1][1] - DragPath[i][1]) <= 1
              /\ Abs(DragPath[i + 1][2] - DragPath[i][2]) <= 1
              /\ DragPath[i + 1] # DragPath[i]
        /\ \A i \in 1 .. Len(DragPath) :
              \A c \in FootprintAt(DragPath[i]) \cap DOMAIN canvas.grid :
                  canvas.grid[c] = canvas.currentBlock

\* C11 witness: a size-1 brush dragged between two cells that are not
\* neighbours changed a cell strictly between them.
C11_Witness ==
    /\ BrushDragged
    /\ brush.size = 1
    /\ Len(DragPath) >= 3
    /\ \E i \in 2 .. Len(DragPath) - 1 : DragPath[i] \in g.changed

\* ------------------------------------------------------------------------
\* Specification SpecRelease: brush strokes of size 1 as time passes and the
\* main loop makes the pending renders that are due.
\* ------------------------------------------------------------------------
\* application.run, lines 690-696: a pending render is due and the main loop
\* calls canvas.render(); the call runs to its return.
Tick ==
    /\ ~canvas.isPanning
    /\ canvas.pending
    /\ canvas.sinceRender >= RenderDelay
    /\ Apply(Render([Start("tick") EXCEPT !.g.preDirty = canvas.dirty], FALSE))
    /\ UNCHANGED <<env, ref>>

NextRelease ==
    \/ TimePasses
    \/ Tick
    \/ LoadGrid
    \/ StrokeTile
    \/ SelectBrush
    \/ StrokePress
    \/ StrokeRelease

SpecRelease == Init /\ [][NextRelease]_vars

\* A release has just ended a brush stroke: the button went up over the
\* grid while the canvas was drawing and the brush held the cell it last
\* painted, so stop_drawing ran the brush's on_mouse_up; the brush has
\* painted a cell of the grid, which was loaded as stone.
BrushStrokeEnded ==
    /\ g.op = "release"
    /\ g.pre.drawing
    /\ canvas.activeTool = "brush"
    /\ g.pre.anchor # NoPos
    /\ g.pre.block # None
    /\ InGrid(canvas, g.arg[1], g.arg[2])
    /\ \E c \in DOMAIN canvas.grid : canvas.grid[c] = "dirt"

\* C12: every release that ends a brush stroke performs a forced full
\* render, also when dirty renders already ran during the stroke and no
\* dirty cell or pending render remains.
C12_ReleaseForcesFullRender ==
    BrushStrokeEnded => g.mode = "full"

\* ------------------------------------------------------------------------
\* Specification SpecTools: the tools.  The user selects tiles and tools
\* (the brush, the picker, none), presses the left button over a cell or
\* beside the grid, drags and releases.
\* ------------------------------------------------------------------------
\* A grid of two cells in a row; the third cell lies outside it.
ToolGridW == MaxW - 1
ToolCells == {<<0, 0>>, <<ToolGridW - 1, 0>>, <<ToolGridW, 0>>}
ToolChoices == {"brush", "picker", None}

ToolLoadGrid == SetGridTo(<<ToolGridW, 1>>, "stone") /\ UNCHANGED ref
ToolSelect == (\E t \in ToolChoices : SetActiveToolTo(t)) /\ UNCHANGED ref
ToolPress == (\E c \in ToolCells : ClickAt(c)) /\ UNCHANGED ref
ToolDrag == (env.left /\ \E c \in ToolCells : MouseMoveTo(c)) /\ UNCHANGED ref
ToolRelease == (\E c \in ToolCells : ReleaseAt(c)) /\ UNCHANGED ref

NextTools ==
    \/ ToolLoadGrid
    \/ SelectTile
    \/ ToolSelect
    \/ ToolPress
    \/ ToolDrag
    \/ ToolRelease

SpecTools == Init /\ [][NextTools]_vars

\* set_active_tool has just deactivated the brush.
BrushDeactivated ==
    /\ g.op = "set_active_tool"
    /\ g.arg[1] = "brush"

\* C13: deactivating the brush through set_active_tool clears its
\* in-progress stroke state: afterwards the brush holds no last-painted cell.
C13_DeactivateClearsStroke ==
    BrushDeactivated => brush.lastPaintedPos = NoPos

\* C14: the active tool of the canvas is the only tool whose is_active flag
\* is true, after every operation, re-selecting the same tool and selecting
\* none included.
C14_ToolSelectionExclusive ==
    /\ brush.isActive <=> canvas.activeTool = "brush"
    /\ picker.isActive <=> canvas.activeTool = "picker"

\* C14 witness: the picker was selected while the brush was active.
C14_Witness ==
    /\ g.op = "set_active_tool"
    /\ g.arg = <<"brush", "picker">>
    /\ picker.isActive
    /\ ~brush.isActive

\* The picker has just handled a press or a drag of the left button.
PickerUsed ==
    /\ g.op \in {"press", "move"}
    /\ g.op = "move" => g.pre.drawing
    /\ canvas.activeTool = "picker"

\* C15: a picker press or drag on an in-bounds cell sets the selected tile
\* to the tile of that cell and invokes the picked callback exactly once,
\* with that tile; a press or drag outside the grid, and every release,
\* leaves the selected tile unchanged and invokes no callback.
C15_PickerPicks ==
    /\ (PickerUsed /\ InGrid(canvas, g.arg[1], g.arg[2])) =>
          /\ canvas.currentBlock = canvas.grid[g.arg]
          /\ g.picked = <<canvas.grid[g.arg]>>
    /\ (PickerUsed /\ ~InGrid(canvas, g.arg[1], g.arg[2])) =>
          /\ canvas.currentBlock = g.pre.block
          /\ g.picked = <<>>
    /\ (g.op = "release" /\ canvas.activeTool = "picker") =>
          /\ canvas.currentBlock = g.pre.block
          /\ g.picked = <<>>

\* C15 witness: the picker was dragged onto a cell whose tile differs from
\* the tile selected before, and the selection followed.
C15_Witness ==
    /\ PickerUsed
    /\ g.op = "move"
    /\ InGrid(canvas, g.arg[1], g.arg[2])
    /\ g.pre.block \notin {None, canvas.currentBlock}
    /\ g.picked = <<canvas.currentBlock>>

\* ------------------------------------------------------------------------
\* Specification SpecBounds: the operations that take grid coordinates are
\* called with cells inside and outside the grid, and the grid is replaced
\* by a smaller one while cells of the old one are dirty.
\* ------------------------------------------------------------------------
BoundsShapes == {<<1, 1>>, <<MaxW, MaxH>>}
BoundsCells == {<<0, 0>>, <<MaxW - 1, MaxH - 1>>, <<MaxW, 0>>, <<0 - 1, 0 - 1>>}
BoundsCentres == {<<MaxW - 1, MaxH - 1>>, <<MaxW, 0>>}

\* set_grid; the history keeps the dirty set the call found and what its
\* render changed on the screen.
BoundsSetGrid ==
    /\ \E shape \in BoundsShapes :
          LET w == SetGrid([Start("set_grid") EXCEPT !.g.preDirty = canvas.dirty],
                           shape[1], shape[2],
                           UniformGrid(shape[1], shape[2], "stone"))
          IN  Apply([w EXCEPT !.g.touched = Touched(scr, w.scr)])
    /\ UNCHANGED <<env, ref>>

\* get_block_at(x, y)
BoundsGetBlock ==
    /\ \E c \in BoundsCells :
          Apply([Start("get_block_at") EXCEPT
                    !.g.arg = c,
                    !.g.preDirty = canvas.dirty,
                    !.g.picked = <<GetBlockAt(canvas, c[1], c[2])>>])
    /\ UNCHANGED <<env, ref>>

\* set_block_at(x, y, "dirt")
BoundsSetBlock == (\E c \in BoundsCells : SetBlockTo(c, "dirt")) /\ UNCHANGED ref

\* BrushTool.on_mouse_down(canvas, x, y, "left") with a 3 x 3 brush
BoundsPaint ==
    /\ brush.size = 3
    /\ \E c \in BoundsCentres : BrushDownAt(c)
    /\ UNCHANGED ref

BoundsBrushSize == SetBrushSizeTo(3) /\ UNCHANGED ref

\* PickerTool.on_mouse_down(canvas, x, y, "left")
BoundsPick ==
    /\ \E c \in BoundsCells :
          LET w == PickBlock([Start("pick") EXCEPT
                                 !.g.arg = c,
                                 !.g.preDirty = canvas.dirty,
                                 !.g.pre.block = canvas.currentBlock],
                             c[1], c[2])
          IN  Apply([w EXCEPT !.g.changed = Changed(canvas.grid, w.cv.grid)])
    /\ UNCHANGED <<env, ref>>

\* draw_line_between_blocks(x0, y0, x1, y1, "dirt") from a cell of the grid
\* to a cell outside it
BoundsLine ==
    /\ \E c \in BoundsCells :
          LET w == DrawLineBetweenBlocks(
                       [Start("line") EXCEPT !.g.arg = c,
                                             !.g.preDirty = canvas.dirty],
                       0, 0, c[1], c[2], "dirt")
          IN  Apply([w EXCEPT !.g.changed = Changed(canvas.grid, w.cv.grid)])
    /\ UNCHANGED <<env, ref>>

NextBounds ==
    \/ BoundsSetGrid
    \/ BoundsGetBlock
    \/ BoundsSetBlock
    \/ StrokeTile
    \/ BoundsBrushSize
    \/ BoundsPaint
    \/ BoundsPick
    \/ BoundsLine

SpecBounds == Init /\ [][NextBounds]_vars

\* The cells of the grid as it is now.
GridCells == Cells(canvas.gridW, canvas.gridH)

\* The operation was given the cell g.arg, which lies outside the grid.
OutsideCell(op) ==
    /\ g.op = op
    /\ ~InGrid(canvas, g.arg[1], g.arg[2])

C16_StaleDirtyRendered ==
    /\ g.op = "set_grid"
    /\ g.mode = "dirty"
    /\ g.preDirty \ GridCells # {}

\* ------------------------------------------------------------------------
\* Specification SpecCoords: the coordinate transforms and the view.  The
\* canvas is built 800 x 600 or 200 x 200; grids are loaded, the view is
\* zoomed about the centre and about other anchors, fitted and reset, and
\* screen points around the grid's origin are converted to cells.
\* ------------------------------------------------------------------------
CoordSizes == {<<CanvasW, CanvasH>>, <<200, 200>>}
CoordShapes == {<<0, 0>>, <<MaxW, MaxH>>, <<8, 8>>}
CoordZooms == {MinZoom \div 2, 2 * Scale}
CoordAnchors == {<<0, 0>>, <<100 * Scale, 30 * Scale>>}
CoordOffsets == {<<0 - 3, 0 - 1>>, <<0 - 1, 1>>, <<0, 0>>, <<1, 2>>}

InitCoords ==
    /\ \E size \in CoordSizes :
          canvas = [InitCanvas EXCEPT !.width = size[1], !.height = size[2]]
    /\ brush = InitBrush
    /\ picker = InitPicker
    /\ scr = ClearedScreen
    /\ env = InitEnv
    /\ g = G0("init")
    /\ ref = InitRef

CoordLoadGrid == (\E shape \in CoordShapes : SetGridTo(shape, "stone")) /\ UNCHANGED ref
CoordSetZoom ==
    (\E z \in CoordZooms, c \in CoordAnchors : SetZoomAt(z, c[1], c[2])) /\ UNCHANGED ref
CoordScreenToGrid ==
    /\ \E k \in CoordOffsets :
          ScreenToGridAt(HalfTilePoint(canvas, k[1], k[2]))
    /\ UNCHANGED ref

NextCoords ==
    \/ CoordLoadGrid
    \/ DoZoomIn
    \/ DoZoomOut
    \/ CoordSetZoom
    \/ DoZoomToFit
    \/ DoResetView
    \/ CoordScreenToGrid

SpecCoords == InitCoords /\ [][NextCoords]_vars

\* C17: screen_to_grid computes floor((sx - pan_x) / (tile_size * zoom))
\* and the same for y, so that a point left of or above the grid's origin
\* maps to a negative cell, never to column or row 0.
C17_ScreenToGridFloors ==
    g.op = "screen_to_grid" =>
        /\ g.arg[3] = (g.arg[1] - canvas.panX) \div (BlockSize * canvas.zoom)
        /\ g.arg[4] = (g.arg[2] - canvas.panY) \div (BlockSize * canvas.zoom)
        /\ g.arg[1] < canvas.panX => g.arg[3] < 0
        /\ g.arg[2] < canvas.panY => g.arg[4] < 0

\* The operations that go through set_zoom.
ZoomOps == {"set_zoom", "zoom_in", "zoom_out"}

\* The grid point, in units of 1/Scale of a pixel at zoom 1, that the view
\* (pan, zoom) shows at the screen coordinate c: (c - pan) / zoom.
GridPoint(c, pan, zoom) ==
    LET d == c - pan
    IN  (d \div zoom) * Scale + ((d % zoom) * Scale) \div zoom

\* The anchor of the zoom operation just made: the centre set_zoom was
\* given, the centre of the canvas for zoom_in and zoom_out.
AnchorX == IF g.op = "set_zoom" THEN g.arg[2] ELSE (canvas.width * Scale) \div 2
AnchorY == IF g.op = "set_zoom" THEN g.arg[3] ELSE (canvas.height * Scale) \div 2

\* C19: when set_zoom changes the zoom about the centre (cx, cy), the grid
\* point under the centre stays under it, (cx - pan_x') / zoom' =
\* (cx - pan_x) / zoom and the same for y, to the resolution of the pan (one
\* unit of the pan is Scale / zoom' units of the grid point); the centre is
\* the canvas centre for zoom_in and zoom_out; when the requested zoom
\* clamps to the current zoom, the pan is unchanged.
C19_AnchoredZoom ==
    g.op \in ZoomOps =>
        IF canvas.zoom = g.pre.zoom
        THEN canvas.panX = g.pre.panX /\ canvas.panY = g.pre.panY
        ELSE /\ Abs(GridPoint(AnchorX, canvas.panX, canvas.zoom)
                    - GridPoint(AnchorX, g.pre.panX, g.pre.zoom))
                   <= Scale \div canvas.zoom + 1
             /\ Abs(GridPoint(AnchorY, canvas.panY, canvas.zoom)
                    - GridPoint(AnchorY, g.pre.panY, g.pre.zoom))
                   <= Scale \div canvas.zoom + 1

\* C19 witness: set_zoom about an anchor other than the canvas centre
\* changed the zoom and moved the pan.
C19_Witness ==
    /\ g.op = "set_zoom"
    /\ canvas.zoom # g.pre.zoom
    /\ g.arg[2] # CenterX(canvas)
    /\ canvas.panX # g.pre.panX
    /\ canvas.panY # g.pre.panY

\* C20: zoom_to_fit sets the zoom to the largest value at which the whole
\* grid fits the canvas with a margin of 20 px on each side,
\* min((W - 40) / (gw * 16), (H - 40) / (gh * 16)), and centres the grid;
\* an 8 x 8 grid in a 200 x 200 canvas gets zoom 1.25 and pan (20, 20); with
\* an empty grid neither zoom nor pan changes.
C20_ZoomToFit ==
    g.op = "zoom_to_fit" =>
        IF canvas.gridW = 0 \/ canvas.gridH = 0
        THEN /\ canvas.zoom = g.pre.zoom
             /\ canvas.panX = g.pre.panX
             /\ canvas.panY = g.pre.panY
        ELSE LET pw == canvas.gridW * BlockSize
                 ph == canvas.gridH * BlockSize
                 aw == (canvas.width - 40) * Scale
                 ah == (canvas.height - 40) * Scale
             IN  /\ canvas.zoom * pw <= aw
                 /\ canvas.zoom * ph <= ah
                 /\ (canvas.zoom + 1) * pw > aw \/ (canvas.zoom + 1) * ph > ah
                 /\ canvas.width * Scale - (2 * canvas.panX + pw * canvas.zoom)
                        \in {0, 1}
                 /\ canvas.height * Scale - (2 * canvas.panY + ph * canvas.zoom)
                        \in {0, 1}
                 /\ (/\ canvas.width = 200 /\ canvas.height = 200
                     /\ canvas.gridW = 8 /\ canvas.gridH = 8) =>
                        /\ canvas.zoom = (5 * Scale) \div 4
                        /\ canvas.panX = 20 * Scale
                        /\ canvas.panY = 20 * Scale

\* C20 witness: zoom_to_fit of the 8 x 8 grid in the 200 x 200 canvas, from
\* another zoom.
C20_Witness ==
    /\ g.op = "zoom_to_fit"
    /\ canvas.width = 200 /\ canvas.gridW = 8
    /\ canvas.zoom = (5 * Scale) \div 4
    /\ g.pre.zoom # canvas.zoom

\* ------------------------------------------------------------------------
\* Floating point.  The view of the canvas is made of Python floats.  A
\* float is modelled as sign * m * 2^e with a significand m of FloatBits
\* bits (0 for zero); every operation rounds its exact result to the nearest
\* such number, ties to the even significand, as IEEE 754 does with 53 bits.
\* ------------------------------------------------------------------------
FloatBits == 13

Pow2(k) == 2 ^ k

\* The number of bits of n > 0.
BitLen(n) == CHOOSE k \in 1 .. 31 : Pow2(k - 1) <= n /\ n < Pow2(k)

FZero == [s |-> 1, m |-> 0, e |-> 0]

\* sign * n * 2^e, n >= 0, rounded to FloatBits bits.
FRound(sign, n, e) ==
    IF n = 0 THEN FZero
    ELSE LET k == BitLen(n)
         IN  IF k <= FloatBits
             THEN [s |-> sign, m |-> n * Pow2(FloatBits - k), e |-> e - (FloatBits - k)]
             ELSE LET sh == k - FloatBits
                      q == n \div Pow2(sh)
                      r == n % Pow2(sh)
                      half == Pow2(sh - 1)
                      up == r > half \/ (r = half /\ q % 2 = 1)
                      m == IF up THEN q + 1 ELSE q
                  IN  IF m = Pow2(FloatBits)
                      THEN [s |-> sign, m |-> Pow2(FloatBits - 1), e |-> e + sh + 1]
                      ELSE [s |-> sign, m |-> m, e |-> e + sh]

\* float(n) of an int n
FInt(n) == FRound(IF n < 0 THEN 0 - 1 ELSE 1, Abs(n), 0)

FNeg(a) == [a EXCEPT !.s = 0 - a.s]

\* a * b
FMul(a, b) == FRound(a.s * b.s, a.m * b.m, a.e + b.e)

\* a + b.  An operand more than FloatBits + 2 binary places below the other
\* is less than a quarter of its last place and leaves it as it is.
FAdd(a, b) ==
    IF a.m = 0 THEN b
    ELSE IF b.m = 0 THEN a
    ELSE IF a.e - b.e > FloatBits + 2 THEN a
    ELSE IF b.e - a.e > FloatBits + 2 THEN b
    ELSE LET e == Min(a.e, b.e)
             n == a.s * a.m * Pow2(a.e - e) + b.s * b.m * Pow2(b.e - e)
         IN  FRound(IF n < 0 THEN 0 - 1 ELSE 1, Abs(n), e)

\* a - b
FSub(a, b) == FAdd(a, FNeg(b))

\* a / b, b # 0: the quotient of the significands to FloatBits + 2 places
\* and one more bit that tells whether a remainder is left.
FDiv(a, b) ==
    IF a.m = 0 THEN FZero
    ELSE LET n == a.m * Pow2(FloatBits + 2)
             q == n \div b.m
             sticky == IF n % b.m = 0 THEN 0 ELSE 1
         IN  FRound(a.s * b.s, 2 * q + sticky, a.e - b.e - (FloatBits + 2) - 1)

\* a < b
FLess(a, b) == LET d == FSub(a, b) IN d.m # 0 /\ d.s < 0

FMin(a, b) == IF FLess(b, a) THEN b ELSE a
FMax(a, b) == IF FLess(a, b) THEN b ELSE a

\* int(a): the integer part, toward zero
FTrunc(a) ==
    IF a.m = 0 THEN 0
    ELSE IF a.e >= 0 THEN a.s * a.m * Pow2(a.e)
    ELSE IF 0 - a.e > FloatBits THEN 0
    ELSE a.s * (a.m \div Pow2(0 - a.e))

\* ------------------------------------------------------------------------
\* The view in floating point: _zoom_level, _pan_x, _pan_y
\* ------------------------------------------------------------------------
\* CanvasWidget.__init__: zoom 1.0, pan 0.0
FloatView0 == [zoom |-> FInt(1), panX |-> FZero, panY |-> FZero]

\* _min_zoom = 0.1, _max_zoom = 32.0
FloatMinZoom == FDiv(FInt(1), FInt(10))
FloatMaxZoom == FInt(32)

\* grid_to_screen
FloatGridToScreen(v, c) ==
    <<FAdd(FMul(FInt(c[1] * BlockSize), v.zoom), v.panX),
      FAdd(FMul(FInt(c[2] * BlockSize), v.zoom), v.panY)>>

\* screen_to_grid
FloatScreenToGrid(v, p) ==
    <<FTrunc(FDiv(FSub(p[1], v.panX), FMul(FInt(BlockSize), v.zoom))),
      FTrunc(FDiv(FSub(p[2], v.panY), FMul(FInt(BlockSize), v.zoom)))>>

\* zoom_to_fit
FloatZoomToFit(v, cv) ==
    IF cv.gridW = 0 \/ cv.gridH = 0 THEN v
    ELSE LET pw == cv.gridW * BlockSize
             ph == cv.gridH * BlockSize
             zx == FDiv(FInt(cv.width - FitMargin), FInt(pw))
             zy == FDiv(FInt(cv.height - FitMargin), FInt(ph))
             z == FMin(zx, zy)
         IN  [zoom |-> z,
              panX |-> FDiv(FSub(FInt(cv.width), FMul(FInt(pw), z)), FInt(2)),
              panY |-> FDiv(FSub(FInt(cv.height), FMul(FInt(ph), z)), FInt(2))]

\* _adjust_pan_for_zoom, one coordinate
FloatAdjustPan(center, pan, oldZoom, newZoom) ==
    FSub(center, FMul(FDiv(FSub(center, pan), oldZoom), newZoom))

\* set_zoom(zoom) with the default centre
FloatSetZoom(v, cv, zoom) ==
    LET new == FMax(FloatMinZoom, FMin(FloatMaxZoom, zoom))
    IN  IF v.zoom = new THEN v
        ELSE [zoom |-> new,
              panX |-> FloatAdjustPan(FDiv(FInt(cv.width), FInt(2)), v.panX,
                                      v.zoom, new),
              panY |-> FloatAdjustPan(FDiv(FInt(cv.height), FInt(2)), v.panY,
                                      v.zoom, new)]

\* zoom_in: the factors 1.3, 1.25, 1.2, 1.15
FloatZoomIn(v, cv) ==
    LET f == IF FLess(v.zoom, FDiv(FInt(1), FInt(2))) THEN FDiv(FInt(13), FInt(10))
             ELSE IF FLess(v.zoom, FInt(1)) THEN FDiv(FInt(5), FInt(4))
             ELSE IF FLess(v.zoom, FInt(4)) THEN FDiv(FInt(12), FInt(10))
             ELSE FDiv(FInt(115), FInt(100))
    IN  FloatSetZoom(v, cv, FMul(v.zoom, f))

\* zoom_out: the factors 0.77, 0.8, 0.83, 0.87
FloatZoomOut(v, cv) ==
    LET f == IF FLess(v.zoom, FDiv(FInt(1), FInt(2))) THEN FDiv(FInt(77), FInt(100))
             ELSE IF FLess(v.zoom, FInt(1)) THEN FDiv(FInt(8), FInt(10))
             ELSE IF FLess(v.zoom, FInt(4)) THEN FDiv(FInt(83), FInt(100))
             ELSE FDiv(FInt(87), FInt(100))
    IN  FloatSetZoom(v, cv, FMul(v.zoom, f))

\* ------------------------------------------------------------------------
\* Specification SpecFloat: the view in floating point.  Beside the canvas,
\* whose view is kept in fixed point, ref holds the view as the float
\* arithmetic of the code gives it; grids are loaded, the view is fitted,
\* reset and zoomed, and cells of the grid are taken to the screen and back.
\* ------------------------------------------------------------------------
FloatShapes == {<<MaxW, MaxW>>, <<MaxW, MaxH>>}

InitFloat ==
    /\ canvas = InitCanvas
    /\ brush = InitBrush
    /\ picker = InitPicker
    /\ scr = ClearedScreen
    /\ env = InitEnv
    /\ g = G0("init")
    /\ ref = FloatView0

FloatLoadGrid == (\E shape \in FloatShapes : SetGridTo(shape, "stone")) /\ UNCHANGED ref
FloatFit == ZoomToFitStep /\ ref' = FloatZoomToFit(ref, canvas)
FloatReset == ResetViewStep /\ ref' = FloatView0
FloatIn == ZoomInStep /\ ref' = FloatZoomIn(ref, canvas)
FloatOut == ZoomOutStep /\ ref' = FloatZoomOut(ref, canvas)

\* screen_to_grid(*grid_to_screen(gx, gy)) for a cell of the grid; the
\* history keeps the cell and the result.
FloatRoundTrip ==
    /\ \E c \in DOMAIN canvas.grid :
          g' = [G0("round_trip") EXCEPT
                   !.arg = <<c, FloatScreenToGrid(ref, FloatGridToScreen(ref, c))>>]
    /\ UNCHANGED <<canvas, brush, picker, scr, env, ref>>

NextFloat ==
    \/ FloatLoadGrid
    \/ FloatFit
    \/ FloatReset
    \/ FloatIn
    \/ FloatOut
    \/ FloatRoundTrip

SpecFloat == InitFloat /\ [][NextFloat]_vars

\* C18: for every in-bounds cell (gx, gy) and every view,
\* screen_to_grid(grid_to_screen(gx, gy)) = (gx, gy).
C18_RoundTrip ==
    g.op = "round_trip" => g.arg[2] = g.arg[1]

\* ------------------------------------------------------------------------
\* Specification SpecPan: the middle button pans the view while the pointer
\* moves over the canvas, with the left button up or held, and the main loop
\* runs.  After the main loop's crash nothing runs any more.
\* ------------------------------------------------------------------------
PanCells == {<<0, 0>>, <<1, 0>>}
PanOrigin == <<100 * Scale, 100 * Scale>>
PanPoints == {PanOrigin, <<116 * Scale, 100 * Scale>>}

Alive == env.tick # "crashed"

PanClock == Alive /\ TimePasses
PanTick == Alive /\ (Tick \/ (PanTickStep /\ UNCHANGED ref))
PanLoadGrid == Alive /\ LoadGrid
PanTile == Alive /\ StrokeTile
PanLeftDown == Alive /\ PressOutsideStep /\ UNCHANGED ref
PanLeftUp == Alive /\ (\E c \in PanCells : ReleaseAt(c)) /\ UNCHANGED ref
PanPointer == Alive /\ (\E c \in PanCells : MouseMoveTo(c)) /\ UNCHANGED ref
PanStart == Alive /\ PanStartAt(PanOrigin) /\ UNCHANGED ref
PanMove == Alive /\ (\E m \in PanPoints : PanMoveTo(m)) /\ UNCHANGED ref
PanStop == Alive /\ PanStopStep /\ UNCHANGED ref
PanReleaseMissed == Alive /\ PanReleaseMissedStep /\ UNCHANGED ref

NextPan ==
    \/ PanClock
    \/ PanTick
    \/ PanLoadGrid
    \/ PanTile
    \/ PanLeftDown
    \/ PanLeftUp
    \/ PanPointer
    \/ PanStart
    \/ PanMove
    \/ PanStop
    \/ PanReleaseMissed

SpecPan == Init /\ [][NextPan]_vars

\* stop_pan or force_stop_pan has just ended an active pan.
PanEnded == g.op \in {"stop_pan", "force_stop_pan"} /\ g.pre.panning

\* Every cell of the grid that is in view shows its tile at the current view.
ViewRedrawn ==
    \A c \in VisibleCells(canvas) :
        c \in DOMAIN scr.drawn /\ scr.drawn[c] = <<canvas.grid[c]>> \o View(canvas)

\* C21: every stop_pan or force_stop_pan that ends an active pan performs a
\* full render, which redraws all visible cells at the new pan offset, also
\* when a few dirty cells of a deferred render are pending, and the pan flag
\* is down afterwards so that hover updates resume.
C21_StopPanFullRender ==
    PanEnded =>
        /\ g.mode \in {"full", "empty"}
        /\ canvas.gridH > 0 => ViewRedrawn
        /\ ~canvas.isPanning

\* C22: while the canvas is panning, pointer movement (the canvas's hover
\* handler and the application's move handler that updates the pan) does not
\* change the hover cell, emits no hover notification, creates no hover
\* item and paints no cell.
C22_PanSuppressesHover ==
    [][(canvas.isPanning /\ g'.op \in {"move", "update_pan"}) =>
          /\ canvas'.hover = canvas.hover
          /\ g'.selection = <<>>
          /\ scr'.hover = scr.hover
          /\ canvas'.grid = canvas.grid
          /\ canvas'.dirty = canvas.dirty]_vars

\* C22 witness: during a pan the pointer moved, the left button held and a
\* tile selected, onto a cell of the grid other than the hover cell, the
\* hover throttle having elapsed.
C22_Witness ==
    /\ g.op = "move"
    /\ canvas.isPanning
    /\ g.pre.drawing
    /\ canvas.currentBlock # None
    /\ InGrid(canvas, g.arg[1], g.arg[2])
    /\ g.arg # canvas.hover
    /\ canvas.sinceHover >= HoverDelay

\* ------------------------------------------------------------------------
\* The tile-matching pipeline: src/app/minecraft
\* A texture file is kept as what the analyzer reads from it: its number of
\* pixels, how many of them have alpha < 255, and the Lab colour that
\* rgb2lab gives for the mean RGB of its pixels.  Lab components are floats.
\* ------------------------------------------------------------------------
ThresholdDen == 20               \* transparency_threshold = 0.05 = 1 / 20
TexPixels == 256                 \* pixels of a 16 x 16 texture

NoLab == <<>>                    \* lab_color = None

\* BlockTexture(block_id, texture_path): the dataclass defaults
NewTile(id, tex) ==
    [id |-> id, tex |-> tex, labColor |-> NoLab, hasTransparency |-> FALSE]

\* No matcher has been built: matcher = None.
NoMatcher == [built |-> FALSE, blocks |-> <<>>, allow |-> FALSE]

\* math.sqrt: the integer square root, by bits from 2^k down
RECURSIVE ISqrtFrom(_, _, _)
ISqrtFrom(n, r, k) ==
    IF k < 0 THEN r
    ELSE IF (r + Pow2(k)) * (r + Pow2(k)) <= n
    THEN ISqrtFrom(n, r + Pow2(k), k - 1)
    ELSE ISqrtFrom(n, r, k - 1)

\* math.sqrt(a), a >= 0, correctly rounded: the root of the significand
\* scaled to an even exponent, and one more bit that tells whether the
\* root is inexact.
FSqrt(a) ==
    IF a.m = 0 THEN FZero
    ELSE LET sh == IF (a.e - 16) % 2 = 0 THEN 16 ELSE 17
             n == a.m * Pow2(sh)
             r == ISqrtFrom(n, 0, 15)
             sticky == IF r * r = n THEN 0 ELSE 1
         IN  FRound(1, 2 * r + sticky, ((a.e - sh) \div 2) - 1)

\* TextureAnalyzer._has_transparency: transparent / total > 0.05
HasTransparency(tex) == tex.clear * ThresholdDen > tex.pixels

\* Variant of analyze that computes a colour for every tile.
AnalyzeColorAll(tiles) ==
    [i \in DOMAIN tiles |->
        [tiles[i] EXCEPT !.hasTransparency = HasTransparency(tiles[i].tex),
                         !.labColor = tiles[i].tex.lab]]

\* TextureAnalyzer.analyze
Analyze(tiles) ==
    [i \in DOMAIN tiles |->
        IF ~HasTransparency(tiles[i].tex)
        THEN [tiles[i] EXCEPT !.hasTransparency = FALSE,
                              !.labColor = tiles[i].tex.lab]
        ELSE [tiles[i] EXCEPT !.hasTransparency = TRUE,
                              !.labColor = NoLab]]

\* The subsequence of the indices 1..Len(tiles) that satisfy Keep, in order.
RECURSIVE Eligible(_, _, _)
Eligible(tiles, allow, i) ==
    IF i > Len(tiles) THEN <<>>
    ELSE IF /\ tiles[i].labColor # NoLab
            /\ allow \/ ~tiles[i].hasTransparency
         THEN <<i>> \o Eligible(tiles, allow, i + 1)
         ELSE Eligible(tiles, allow, i + 1)

\* Variant of BlockMatcher.__init__ without the check of lines 26-27.
BlockMatcherInitUnchecked(tiles, allow) ==
    [raised |-> FALSE, blocks |-> Eligible(tiles, allow, 1)]

\* BlockMatcher.__init__: self.blocks holds references to the tiles, kept
\* here as their positions in the catalog; raised: the ValueError.
BlockMatcherInit(tiles, allow) ==
    LET blocks == Eligible(tiles, allow, 1)
    IN  IF blocks = <<>>
        THEN [raised |-> TRUE, blocks |-> <<>>]
        ELSE [raised |-> FALSE, blocks |-> blocks]

\* BlockMatcher._delta_e
DeltaE(lab1, lab2) ==
    LET d(i) == FSub(FInt(lab1[i]), FInt(lab2[i]))
        sq(i) == FMul(d(i), d(i))
    IN  FSqrt(FAdd(FAdd(sq(1), sq(2)), sq(3)))

\* Variant of the scan of match_lab whose test is d <= best_distance.
RECURSIVE MatchScanLast(_, _, _, _, _, _)
MatchScanLast(tiles, blocks, lab, i, best, bestD) ==
    IF i > Len(blocks) THEN best
    ELSE LET d == DeltaE(lab, tiles[blocks[i]].labColor)
         IN  IF best = 0 \/ ~FLess(bestD, d)
             THEN MatchScanLast(tiles, blocks, lab, i + 1, blocks[i], d)
             ELSE MatchScanLast(tiles, blocks, lab, i + 1, best, bestD)

MatchLabLast(tiles, blocks, lab) ==
    MatchScanLast(tiles, blocks, lab, 1, 0, FZero)

\* match_lab, lines 38-43: the scan; best = 0 is best_block = None, for
\* which best_distance is math.inf.
RECURSIVE MatchScan(_, _, _, _, _, _)
MatchScan(tiles, blocks, lab, i, best, bestD) ==
    IF i > Len(blocks) THEN best
    ELSE LET d == DeltaE(lab, tiles[blocks[i]].labColor)
         IN  IF best = 0 \/ FLess(d, bestD)
             THEN MatchScan(tiles, blocks, lab, i + 1, blocks[i], d)
             ELSE MatchScan(tiles, blocks, lab, i + 1, best, bestD)

\* BlockMatcher.match_lab: the position in the catalog of the tile returned
MatchLab(tiles, blocks, lab) == MatchScan(tiles, blocks, lab, 1, 0, FZero)

\* ------------------------------------------------------------------------
\* ImageToBlockMapper.map_image.  An image is its width, its height and the
\* Lab colour of each pixel (x, y); a grid is the list of its rows.
\* ------------------------------------------------------------------------
NoSize == <<>>                   \* target_size = None

\* img.resize(size, Image.NEAREST): each pixel of the result takes the
\* source pixel under its centre.
ResizeNearest(img, size) ==
    [w |-> size[1], h |-> size[2],
     pix |-> [c \in Cells(size[1], size[2]) |->
                img.pix[<<((2 * c[1] + 1) * img.w) \div (2 * size[1]),
                          ((2 * c[2] + 1) * img.h) \div (2 * size[2])>>]]]

\* map_image, lines 51-54: the row y from its pixel x on, tile by tile
RECURSIVE MapRow(_, _, _, _, _)
MapRow(tiles, blocks, img, y, x) ==
    IF x >= img.w THEN <<>>
    ELSE <<MatchLab(tiles, blocks, img.pix[<<x, y>>])>>
         \o MapRow(tiles, blocks, img, y, x + 1)

\* map_image, lines 49-61: the rows from y on and the progress values, the
\* value after row y being (y + done) / height.
RECURSIVE MapRows(_, _, _, _, _, _)
MapRows(tiles, blocks, img, y, hasCallback, done) ==
    IF y >= img.h THEN [grid |-> <<>>, progress |-> <<>>]
    ELSE LET rest == MapRows(tiles, blocks, img, y + 1, hasCallback, done)
         IN  [grid |-> <<MapRow(tiles, blocks, img, y, 0)>> \o rest.grid,
              progress |-> IF hasCallback
                           THEN <<FDiv(FInt(y + done), FInt(img.h))>>
                                \o rest.progress
                           ELSE <<>>]

\* Variant of map_image that ignores target_size.
MapImageUnresized(tiles, blocks, image, targetSize, hasCallback) ==
    MapRows(tiles, blocks, image, 0, hasCallback, 1)

\* Variant of map_image whose progress is y / height for the row index y.
MapImageRowIndex(tiles, blocks, image, targetSize, hasCallback) ==
    MapRows(tiles, blocks,
            IF targetSize # NoSize THEN ResizeNearest(image, targetSize) ELSE image,
            0, hasCallback, 0)

\* map_image: the grid returned and the values handed to progress_callback
MapImage(tiles, blocks, image, targetSize, hasCallback) ==
    LET img == IF targetSize # NoSize THEN ResizeNearest(image, targetSize)
               ELSE image
    IN  MapRows(tiles, blocks, img, 0, hasCallback, 1)

\* ------------------------------------------------------------------------
\* Specification SpecMatch: a catalog of tiles as TexturePackParser.parse
\* creates them is analyzed, matchers are built from it and asked for the
\* nearest tile.  ref holds the catalog and the matcher.
\* ------------------------------------------------------------------------
MaxTiles == 3                    \* tiles of the largest catalog
MaxCalls == 1                    \* match_lab and map_image calls in a run

\* The texture files: stone, dirt and sand are solid (dirt with 12 of 256
\* pixels not opaque, just below the threshold), leaves has 13 such pixels,
\* glass is transparent throughout.
Textures ==
    [stone |-> [pixels |-> TexPixels, clear |-> 0, lab |-> <<1, 1, 92>>],
     sand |-> [pixels |-> TexPixels, clear |-> 0, lab |-> <<1, 1, 0 - 120>>],
     dirt |-> [pixels |-> TexPixels, clear |-> 12, lab |-> <<92, 1, 1>>],
     leaves |-> [pixels |-> TexPixels, clear |-> 13, lab |-> <<50, 0, 0>>],
     glass |-> [pixels |-> TexPixels, clear |-> TexPixels, lab |-> <<90, 0, 0>>]]

TileIds == {"stone", "dirt", "sand", "leaves", "glass"}

\* The catalogs: up to MaxTiles tiles of different files, in any order.
Catalogs ==
    {c \in UNION {[1 .. n -> TileIds] : n \in 0 .. MaxTiles} :
        \A i, j \in DOMAIN c : i # j => c[i] # c[j]}

Targets == {<<0, 0, 0>>, <<1, 1, 1>>, <<90, 0, 0>>}

InitMatch ==
    /\ canvas = InitCanvas
    /\ brush = InitBrush
    /\ picker = InitPicker
    /\ scr = ClearedScreen
    /\ env = InitEnv
    /\ g = G0("init")
    /\ \E c \in Catalogs :
          ref = [tiles |-> [i \in DOMAIN c |-> NewTile(c[i], Textures[c[i]])],
                 analyzed |-> FALSE, matcher |-> NoMatcher]

\* analyzer.analyze(blocks)
MatchAnalyze ==
    /\ ref' = [ref EXCEPT !.tiles = Analyze(@), !.analyzed = TRUE]
    /\ g' = G0("analyze")
    /\ UNCHANGED <<canvas, brush, picker, scr, env>>

\* matcher = BlockMatcher(blocks, allow_transparency): the assignment is
\* not made when the constructor raises.
MatchNew ==
    \E allow \in BOOLEAN :
        LET r == BlockMatcherInit(ref.tiles, allow)
        IN  /\ ref' = IF r.raised THEN ref
                      ELSE [ref EXCEPT !.matcher = [built |-> TRUE,
                                                    blocks |-> r.blocks,
                                                    allow |-> allow]]
            /\ g' = [G0("new_matcher") EXCEPT
                        !.mode = IF r.raised THEN "ValueError" ELSE "ok",
                        !.arg = <<allow>>]
            /\ UNCHANGED <<canvas, brush, picker, scr, env>>

\* matcher.match_lab(lab)
MatchCall ==
    /\ ref.matcher.built
    /\ env.steps < MaxCalls
    /\ \E lab \in Targets :
          g' = [G0("match_lab") EXCEPT
                  !.arg = lab,
                  !.picked = <<MatchLab(ref.tiles, ref.matcher.blocks, lab)>>]
    /\ env' = [env EXCEPT !.steps = @ + 1]
    /\ UNCHANGED <<canvas, brush, picker, scr, ref>>

\* The source images: 1 x 1, 2 wide and 3 high, and 4 x 4; their pixels
\* take the target colours in turn.  MapInputs pairs them with the target
\* sizes: none, an enlargement, a reduction, and a change of both sides.
TargetAt(k) ==
    IF k % 3 = 0 THEN <<0, 0, 0>> ELSE IF k % 3 = 1 THEN <<1, 1, 1>> ELSE <<90, 0, 0>>

ImageOf(shape) ==
    [w |-> shape[1], h |-> shape[2],
     pix |-> [c \in Cells(shape[1], shape[2]) |-> TargetAt(c[1] + 2 * c[2])]]

MapInputs ==
    {<<<<1, 1>>, NoSize>>, <<<<2, 3>>, NoSize>>, <<<<1, 1>>, <<2, 2>>>>,
     <<<<2, 3>>, <<3, 1>>>>, <<<<4, 4>>, <<2, 2>>>>}

\* mapper.map_image(path, target_size=..., progress_callback=...)
MatchMap ==
    /\ ref.matcher.built
    /\ env.steps < MaxCalls
    /\ \E in \in MapInputs, cb \in BOOLEAN :
          \E r \in {MapImage(ref.tiles, ref.matcher.blocks, ImageOf(in[1]), in[2], cb)} :
              g' = [G0("map_image") EXCEPT !.arg = <<in[1], in[2], cb>>,
                                           !.picked = r.grid,
                                           !.progress = r.progress]
    /\ env' = [env EXCEPT !.steps = @ + 1]
    /\ UNCHANGED <<canvas, brush, picker, scr, ref>>

NextMatch ==
    \/ MatchAnalyze
    \/ MatchNew
    \/ MatchCall
    \/ MatchMap

SpecMatch == InitMatch /\ [][NextMatch]_vars

\* The tile a match_lab call has just returned.
Matched == ref.tiles[g.picked[1]]

\* C24: after analyze every tile has a perceptual colour exactly if it is
\* not flagged transparent, and a matcher built with allow_transparency
\* False returns a tile of the catalog that is not flagged transparent.
C24_TransparentNeverMatched ==
    /\ ref.analyzed =>
          \A i \in DOMAIN ref.tiles :
              (ref.tiles[i].labColor # NoLab) <=> ~ref.tiles[i].hasTransparency
    /\ (g.op = "match_lab" /\ ~ref.matcher.allow) =>
          /\ g.picked[1] \in DOMAIN ref.tiles
          /\ ~Matched.hasTransparency
          /\ ~HasTransparency(Matched.tex)

\* C24 witness: a matcher that excludes transparent tiles answered from a
\* catalog that holds a transparent tile before a solid one.
C24_Witness ==
    /\ g.op = "match_lab"
    /\ ~ref.matcher.allow
    /\ Len(ref.tiles) >= 2
    /\ ref.tiles[1].hasTransparency
    /\ ref.tiles[1].id = "glass"
    /\ g.arg = Textures["glass"].lab

\* The squared Euclidean distance of two Lab colours, in exact arithmetic.
Dist2(lab1, lab2) ==
    (lab1[1] - lab2[1]) * (lab1[1] - lab2[1])
    + (lab1[2] - lab2[2]) * (lab1[2] - lab2[2])
    + (lab1[3] - lab2[3]) * (lab1[3] - lab2[3])

\* The eligible tiles of the matcher, as positions in the catalog, and the
\* place of the returned tile among them.
MatcherBlocks == ref.matcher.blocks
PickedAt == {k \in DOMAIN MatcherBlocks : MatcherBlocks[k] = g.picked[1]}

\* C25, as stated: match returns an eligible tile whose Euclidean distance
\* to the target is minimal over the eligible tiles, and among equidistant
\* tiles the first in catalog order.
C25_NearestExact ==
    g.op = "match_lab" =>
        /\ PickedAt # {}
        /\ \A k \in DOMAIN MatcherBlocks :
              LET dk == Dist2(g.arg, ref.tiles[MatcherBlocks[k]].labColor)
                  dp == Dist2(g.arg, Matched.labColor)
              IN  /\ dp <= dk
                  /\ dk = dp => \A q \in PickedAt : q <= k

\* C25, amended: match returns the eligible tile whose distance to the
\* target, as _delta_e computes it in floating point, is minimal over the
\* eligible tiles, and among the tiles of equal computed distance the first
\* in catalog order.  This determines the tile, so repeated calls with the
\* same catalog and target return the same tile.
C25_Nearest ==
    g.op = "match_lab" =>
        /\ PickedAt # {}
        /\ \A k \in DOMAIN MatcherBlocks :
              LET dk == DeltaE(g.arg, ref.tiles[MatcherBlocks[k]].labColor)
                  dp == DeltaE(g.arg, Matched.labColor)
              IN  /\ ~FLess(dk, dp)
                  /\ dk = dp => \A q \in PickedAt : q <= k

\* C25 witness: two eligible tiles are at the same computed distance of the
\* target, nearer than a third, and the one that comes first was returned.
C25_Witness ==
    /\ g.op = "match_lab"
    /\ Len(MatcherBlocks) = 3
    /\ g.picked[1] = MatcherBlocks[2]
    /\ DeltaE(g.arg, Matched.labColor)
          = DeltaE(g.arg, ref.tiles[MatcherBlocks[3]].labColor)
    /\ FLess(DeltaE(g.arg, Matched.labColor),
             DeltaE(g.arg, ref.tiles[MatcherBlocks[1]].labColor))

\* The tiles of the catalog that have a perceptual colour and, unless
\* transparent tiles are allowed, are not flagged transparent.
EligibleTiles(allow) ==
    {i \in DOMAIN ref.tiles :
        /\ ref.tiles[i].labColor # NoLab
        /\ allow \/ ~ref.tiles[i].hasTransparency}

\* C26: constructing a matcher from tiles none of which is eligible raises
\* the configuration error and yields no matcher, so that no match call can
\* run on an empty eligible set; with at least one eligible tile the
\* construction succeeds.
C26_EmptyEligibleSetRaises ==
    /\ g.op = "new_matcher" =>
          /\ (g.mode = "ValueError") <=> (EligibleTiles(g.arg[1]) = {})
          /\ (g.mode = "ok") <=> (EligibleTiles(g.arg[1]) # {})
          /\ g.mode = "ok" =>
                /\ ref.matcher.built
                /\ ref.matcher.allow = g.arg[1]
                /\ {ref.matcher.blocks[k] : k \in DOMAIN ref.matcher.blocks}
                      = EligibleTiles(g.arg[1])
    /\ ref.matcher.built => ref.matcher.blocks # <<>>
    /\ g.op = "match_lab" => ref.matcher.built

\* C26 witness: the construction raised on an analyzed catalog of two
\* tiles, both transparent, and no matcher exists.
C26_Witness ==
    /\ g.op = "new_matcher"
    /\ g.mode = "ValueError"
    /\ ref.analyzed
    /\ Len(ref.tiles) = 2
    /\ ~ref.matcher.built

\* C27: the grid map_image returns has the height and width of the source
\* image when no resize is requested and those of target_size (width,
\* height) when one is given, and every row has the same length.
C27_MapDimensions ==
    g.op = "map_image" =>
        LET shape == g.arg[1]
            size == g.arg[2]
            width == IF size = NoSize THEN shape[1] ELSE size[1]
            height == IF size = NoSize THEN shape[2] ELSE size[2]
        IN  /\ Len(g.picked) = height
            /\ \A y \in DOMAIN g.picked : Len(g.picked[y]) = width

\* C27 witness: a 4 x 4 image was mapped with target size 2 x 2 and the
\* grid has 2 rows of 2 cells.
C27_Witness ==
    /\ g.op = "map_image"
    /\ g.arg[1] = <<4, 4>>
    /\ g.arg[2] = <<2, 2>>
    /\ Len(g.picked) = 2
    /\ Len(g.picked[1]) = 2

\* C28: the progress values of one map_image call, one after each completed
\* row, are non-decreasing, lie within [0, 1], and the last is exactly 1.0.
C28_ProgressMonotone ==
    (g.op = "map_image" /\ g.arg[3]) =>
        /\ Len(g.progress) = Len(g.picked)
        /\ \A y \in DOMAIN g.progress :
              /\ ~FLess(g.progress[y], FZero)
              /\ ~FLess(FInt(1), g.progress[y])
              /\ y > 1 => ~FLess(g.progress[y], g.progress[y - 1])
        /\ g.progress[Len(g.progress)] = FInt(1)

\* C28 witness: an image of three rows was mapped with a progress callback,
\* which received three values, the first below the second.
C28_Witness ==
    /\ g.op = "map_image"
    /\ g.arg[3]
    /\ Len(g.progress) = 3
    /\ FLess(g.progress[1], g.progress[2])
    /\ FLess(g.progress[2], g.progress[3])

\* ------------------------------------------------------------------------
\* Specification SpecGrid: a catalog is analyzed, a matcher built, images
\* are converted and loaded into the canvas, and the grid is edited with the
\* brush, by line drawing and with the picker.
\* ------------------------------------------------------------------------
GridCatalog == <<"glass", "stone", "dirt">>
GridImages == {<<2, 1>>}
GridSizes == {NoSize, <<3, 1>>}
GridPoints == {<<0, 0>>, <<2, 0>>}
MaxLoads == 2

InitGrid ==
    /\ canvas = InitCanvas
    /\ brush = InitBrush
    /\ picker = InitPicker
    /\ scr = ClearedScreen
    /\ env = InitEnv
    /\ g = G0("init")
    /\ ref = [tiles |-> [i \in DOMAIN GridCatalog |->
                           NewTile(GridCatalog[i], Textures[GridCatalog[i]])],
              analyzed |-> FALSE, matcher |-> NoMatcher]

\* The first tile of the catalog that is not flagged transparent, if any.
FirstSolid ==
    LET solid == {i \in DOMAIN ref.tiles : ~ref.tiles[i].hasTransparency}
    IN  IF solid = {} THEN None
        ELSE ref.tiles[CHOOSE i \in solid : \A j \in solid : i <= j].id

\* application._convert_and_load_image with a matcher: map_image, set_grid,
\* render, zoom_to_fit, render, and the first solid tile becomes current.
ConvertAndLoadImage(shape, size) ==
    /\ ref.matcher.built
    /\ \E r \in {MapImage(ref.tiles, ref.matcher.blocks, ImageOf(shape), size, TRUE)} :
          LET height == Len(r.grid)
              width == Len(r.grid[1])
              grid == [c \in Cells(width, height) |->
                         ref.tiles[r.grid[c[2] + 1][c[1] + 1]].id]
              w1 == SetGrid([Start("load_image") EXCEPT !.g.arg = <<shape, size>>,
                                                        !.g.progress = r.progress],
                            width, height, grid)
              w2 == Render(ZoomToFit(Render(w1, FALSE)), FALSE)
          IN  Apply(IF FirstSolid # None
                    THEN [w2 EXCEPT !.cv.currentBlock = FirstSolid]
                    ELSE w2)

GridAnalyze == MatchAnalyze
GridNewMatcher == MatchNew
GridLoadImage ==
    /\ env.steps < MaxLoads
    /\ \E shape \in GridImages, size \in GridSizes : ConvertAndLoadImage(shape, size)
    /\ env' = [env EXCEPT !.steps = @ + 1]
    /\ UNCHANGED ref
GridTool == (\E t \in {"brush", "picker"} : SetActiveToolTo(t)) /\ UNCHANGED ref
GridPress == (\E c \in GridPoints : ClickAt(c)) /\ UNCHANGED ref
GridDrag == (env.left /\ \E c \in GridPoints : MouseMoveTo(c)) /\ UNCHANGED ref
GridRelease == ReleaseAt(<<0, 0>>) /\ UNCHANGED ref

NextGrid ==
    \/ GridAnalyze
    \/ GridNewMatcher
    \/ GridLoadImage
    \/ GridTool
    \/ GridPress
    \/ GridDrag
    \/ GridRelease

SpecGrid == InitGrid /\ [][NextGrid]_vars

\* C29: at every state, after any sequence of image conversions, set_grid,
\* brush painting, line drawing and picking, the grid has a cell for every
\* position of its height-by-width rectangle and every cell holds a tile.
C29_GridComplete ==
    /\ DOMAIN canvas.grid = Cells(canvas.gridW, canvas.gridH)
    /\ \A c \in DOMAIN canvas.grid : canvas.grid[c] \in TileIds
    /\ g.op = "load_image" =>
          /\ canvas.gridH > 0
          /\ canvas.gridW > 0

\* C29 witness: on a grid that came from an image, a drag has just painted
\* two or more cells along a line, after the picker had chosen the tile.
C29_Witness ==
    /\ g.op = "move"
    /\ canvas.gridW = 3
    /\ Cardinality(g.changed) >= 2
    /\ canvas.currentBlock # FirstSolid

\* ------------------------------------------------------------------------
\* BlockManager (src/app/core/block_manager.py).  A block id is kept as the
\* sequence of its namespace, colon included, and the parts of its stem
\* between underscores: "minecraft:oak_log_top" is
\* <<"minecraft:", "oak", "log", "top">>.  Every directional suffix is one
\* underscore and one part, so str.endswith(suffix) looks at the last parts
\* of the stem and needs a part before them.
\* ------------------------------------------------------------------------
DIRECTIONAL_SUFFIXES == <<"top", "side", "front", "back", "bottom", "end">>

\* block_id.endswith("_" + parts joined by "_")
EndsWith(id, parts) ==
    /\ Len(id) >= Len(parts) + 2
    /\ SubSeq(id, Len(id) - Len(parts) + 1, Len(id)) = parts

\* name.split(':')[-1]
WithoutPrefix(id) == Tail(id)

\* get_base_block_name: the suffixes are tried in the order of the list
RECURSIVE GetBaseBlockNameFrom(_, _)
GetBaseBlockNameFrom(id, k) ==
    IF k > Len(DIRECTIONAL_SUFFIXES) THEN id
    ELSE IF EndsWith(id, <<DIRECTIONAL_SUFFIXES[k]>>)
         THEN SubSeq(id, 1, Len(id) - 1)
         ELSE GetBaseBlockNameFrom(id, k + 1)

GetBaseBlockName(id) == GetBaseBlockNameFrom(id, 1)

\* The manager before load_blocks: __init__ with the ignore list `defaults`.
NewManager(pack, defaults) ==
    [pack |-> pack, defaults |-> defaults, all |-> <<>>, active |-> <<>>,
     ignored |-> {}, initialized |-> FALSE, matcher |-> NoMatcher,
     raised |-> FALSE]

\* Variant of _apply_filters that looks the block id up in the ignore set.
ApplyFiltersByIdentity(m) ==
    LET Keep(b) == b.id \notin m.ignored
    IN  [m EXCEPT !.active = SelectSeq(m.all, Keep)]

\* _apply_filters
ApplyFilters(m) ==
    LET Keep(b) == GetBaseBlockName(b.id) \notin m.ignored
    IN  [m EXCEPT !.active = SelectSeq(m.all, Keep)]

\* _initialize_user_ignored_blocks
InitializeUserIgnoredBlocks(m) ==
    IF m.all = <<>> THEN m
    ELSE LET baseOf(i) == GetBaseBlockName(m.all[i].id)
             allBaseNames == {baseOf(i) : i \in DOMAIN m.all}
             blocksFor(b) == {i \in DOMAIN m.all : baseOf(i) = b}
             variants(b) == {WithoutPrefix(m.all[i].id) : i \in blocksFor(b)}
             isIgnored(b) ==
                 \/ WithoutPrefix(b) \in m.defaults
                 \/ variants(b) \cap m.defaults # {}
                 \/ \E i \in blocksFor(b) : m.all[i].hasTransparency
         IN  [m EXCEPT !.ignored = @ \cup {b \in allBaseNames : isIgnored(b)}]

\* self.matcher = BlockMatcher(self.active_blocks, allow_transparency=False)
\* when active_blocks is not empty; the matcher's tiles are kept by their ids
\* and a ValueError of the constructor leaves the old matcher in place.
ManagerNewMatcher(m) ==
    IF m.active = <<>> THEN m
    ELSE LET r == BlockMatcherInit(m.active, FALSE)
         IN  IF r.raised THEN [m EXCEPT !.raised = TRUE]
             ELSE [m EXCEPT !.matcher =
                      [built |-> TRUE,
                       blocks |-> [k \in DOMAIN r.blocks |-> m.active[r.blocks[k]].id],
                       allow |-> FALSE]]

\* load_blocks
LoadBlocks(m) ==
    LET NotLogTop(b) == ~EndsWith(b.id, <<"log", "top">>)
        parsed == [i \in DOMAIN m.pack |->
                     NewTile(m.pack[i][1], Textures[m.pack[i][2]])]
        m1 == [m EXCEPT !.all = Analyze(SelectSeq(parsed, NotLogTop)),
                        !.raised = FALSE]
        m2 == IF ~m1.initialized
              THEN [InitializeUserIgnoredBlocks(m1) EXCEPT !.initialized = TRUE]
              ELSE m1
    IN  ManagerNewMatcher(ApplyFilters(m2))

\* toggle_block_ignore
ToggleBlockIgnore(m, baseName, isIgnored) ==
    [m EXCEPT !.ignored = IF isIgnored THEN @ \cup {baseName}
                          ELSE @ \ {baseName},
              !.raised = FALSE]

\* reset_to_defaults
ResetToDefaults(m) ==
    ApplyFilters(InitializeUserIgnoredBlocks(
        [m EXCEPT !.ignored = {}, !.raised = FALSE]))

\* reload_with_filters
ReloadWithFilters(m) ==
    ManagerNewMatcher(ApplyFilters([m EXCEPT !.raised = FALSE]))

\* ------------------------------------------------------------------------
\* Specification SpecFilter: a texture pack is loaded and the ignore flags
\* are toggled, reset and applied in any order.
\* ------------------------------------------------------------------------
Ns == "minecraft:"
FilterPack ==
    << <<<<Ns, "oak", "log">>, "stone">>,
       <<<<Ns, "oak", "log", "top">>, "sand">>,
       <<<<Ns, "furnace", "front">>, "sand">>,
       <<<<Ns, "furnace", "side">>, "dirt">>,
       <<<<Ns, "glass">>, "glass">> >>
FilterDefaults == {{}, {<<"furnace", "side">>}, {<<"oak", "log">>, <<"debug">>}}
ToggleNames ==
    {<<Ns, "oak", "log">>, <<Ns, "furnace">>, <<Ns, "glass">>,
     <<Ns, "furnace", "front">>}

InitFilter ==
    /\ canvas = InitCanvas
    /\ brush = InitBrush
    /\ picker = InitPicker
    /\ scr = ClearedScreen
    /\ env = InitEnv
    /\ g = G0("init")
    /\ \E defaults \in FilterDefaults : ref = NewManager(FilterPack, defaults)

FilterStep(op, arg, m) ==
    /\ ref' = m
    /\ g' = [G0(op) EXCEPT !.arg = arg]
    /\ UNCHANGED <<canvas, brush, picker, scr, env>>

FilterLoad == FilterStep("load_blocks", <<>>, LoadBlocks(ref))
FilterToggle ==
    \E name \in ToggleNames, isIgnored \in BOOLEAN :
        FilterStep("toggle_block_ignore", <<name, isIgnored>>,
                   ToggleBlockIgnore(ref, name, isIgnored))
FilterReset == FilterStep("reset_to_defaults", <<>>, ResetToDefaults(ref))
FilterReload == FilterStep("reload_with_filters", <<>>, ReloadWithFilters(ref))

NextFilter ==
    \/ FilterLoad
    \/ FilterToggle
    \/ FilterReset
    \/ FilterReload

SpecFilter == InitFilter /\ [][NextFilter]_vars

FilterApplications == {"load_blocks", "reset_to_defaults", "reload_with_filters"}
ActiveIds == {ref.active[i].id : i \in DOMAIN ref.active}

\* C30: after load_blocks, reset_to_defaults and reload_with_filters the
\* active tiles are, in catalog order, exactly the tiles of the catalog whose
\* base name is not flagged ignored; so every active tile is a tile of the
\* catalog, and two tiles with one base name are both active or both not.
C30_ActiveFromIgnoreFlags ==
    g.op \in FilterApplications =>
        LET NotIgnored(b) == GetBaseBlockName(b.id) \notin ref.ignored
        IN  /\ ref.active = SelectSeq(ref.all, NotIgnored)
            /\ \A i \in DOMAIN ref.active :
                   \E j \in DOMAIN ref.all : ref.all[j] = ref.active[i]
            /\ \A i, j \in DOMAIN ref.all :
                   GetBaseBlockName(ref.all[i].id) = GetBaseBlockName(ref.all[j].id)
                   => (ref.all[i].id \in ActiveIds <=> ref.all[j].id \in ActiveIds)

\* C30 witness: filters were applied to a loaded catalog in which two
\* directional variants of an ignored base name are both inactive while
\* another tile is active.
C30_Witness ==
    /\ g.op = "reload_with_filters"
    /\ ref.active # <<>>
    /\ \E i, j \in DOMAIN ref.all :
          /\ i # j
          /\ GetBaseBlockName(ref.all[i].id) = GetBaseBlockName(ref.all[j].id)
          /\ GetBaseBlockName(ref.all[i].id) \in ref.ignored
          /\ ref.all[i].id \notin ActiveIds
          /\ ref.all[j].id \notin ActiveIds

\* ------------------------------------------------------------------------
\* The texture cache of the canvas (src/app/ui/canvas_widget.py, lines
\* 577-679).  A texture file is "ok", "missing" or "corrupt" (its decode
\* raises); a bitmap is the decoded file of a tile or a solid colour.  The
\* cache is a function from the cached block ids to their bitmaps.
\* ------------------------------------------------------------------------
Magenta == <<255, 0, 255>>
NoColor == <<>>                  \* avg_color = None
PreloadLimit == 50               \* unique_blocks.values()[:50]

FileBitmap(id) == [kind |-> "file", of |-> id]
SolidBitmap(color) == [kind |-> "solid", of |-> color]

\* block.avg_color if block.avg_color else (255, 0, 255)
FallbackColor(block) == IF block.avgColor # NoColor THEN block.avgColor ELSE Magenta

\* _create_dpg_texture: the texture is registered and cached under the id;
\* created counts the textures made for each id since the last clear.
CreateDpgTexture(m, block, img) ==
    [m EXCEPT !.cache = (block.id :> img) @@ @, !.created[block.id] = @ + 1]

\* Variant of _load_texture without the except clause: a decode error leaves
\* the method, and the render that called it, with an exception.
LoadTextureUncaught(m, block) ==
    IF block.id \in DOMAIN m.cache THEN m
    ELSE IF m.files[block.id] = "ok"
    THEN CreateDpgTexture([m EXCEPT !.decodes[block.id] = @ + 1],
                          block, FileBitmap(block.id))
    ELSE IF m.files[block.id] = "missing"
    THEN CreateDpgTexture(m, block, SolidBitmap(FallbackColor(block)))
    ELSE [m EXCEPT !.raised = TRUE]

\* _load_texture: a hit returns the cached tag; otherwise the file is
\* decoded, or, when it is missing or its decode raises, replaced by a solid
\* bitmap.  decodes counts the decodes of each id since the last clear.
LoadTexture(m, block) ==
    IF block.id \in DOMAIN m.cache THEN m
    ELSE IF m.files[block.id] = "ok"
    THEN CreateDpgTexture([m EXCEPT !.decodes[block.id] = @ + 1],
                          block, FileBitmap(block.id))
    ELSE CreateDpgTexture(m, block, SolidBitmap(FallbackColor(block)))

\* clear_textures
ClearTextures(m) ==
    [m EXCEPT !.cache = <<>>, !.decodes = [id \in DOMAIN @ |-> 0],
              !.created = [id \in DOMAIN @ |-> 0]]

\* The blocks of a grid, each id once, in the order of first appearance.
RECURSIVE UniqueBlocks(_, _)
UniqueBlocks(blocks, i) ==
    IF i > Len(blocks) THEN <<>>
    ELSE IF \E j \in 1 .. i - 1 : blocks[j].id = blocks[i].id
         THEN UniqueBlocks(blocks, i + 1)
         ELSE <<blocks[i]>> \o UniqueBlocks(blocks, i + 1)

\* render, lines 795-798 and 816: every visible block that is not cached is
\* loaded, then each is drawn with its cached texture.
RECURSIVE LoadAll(_, _, _)
LoadAll(m, blocks, i) ==
    IF i > Len(blocks) \/ m.raised THEN m
    ELSE LoadAll(LoadTexture(m, blocks[i]), blocks, i + 1)

TexRender(m) ==
    LET m1 == LoadAll(m, UniqueBlocks(m.grid, 1), 1)
    IN  [m1 EXCEPT !.drawn = IF m1.raised THEN <<>>
                             ELSE [i \in DOMAIN m1.grid |-> m1.cache[m1.grid[i].id]]]

\* ------------------------------------------------------------------------
\* Specification SpecTex: set_grid clears the cache, hands one preload task
\* per unique block to the worker pool, collects each result with a
\* timeout and renders; the worker tasks run at any time.  ref holds the
\* cache, the task of each future of the running set_grid, and the tasks of
\* earlier calls that were not finished when their result was given up
\* (stale).  A task is "queued", "checked" (the worker found the id not
\* cached), "img" (done, image decoded) or "none" (done without image).
\* ------------------------------------------------------------------------
TexIds == {"stone", "glass"}
TexBlock(id) ==
    [id |-> id, avgColor |-> IF id = "stone" THEN <<125, 125, 125>> ELSE NoColor]
TexGrids ==
    {<<>>, <<TexBlock("stone")>>, <<TexBlock("glass"), TexBlock("stone"), TexBlock("glass")>>}
FileStates == {"ok", "missing", "corrupt"}

InitTex ==
    /\ canvas = InitCanvas
    /\ brush = InitBrush
    /\ picker = InitPicker
    /\ scr = ClearedScreen
    /\ env = InitEnv
    /\ g = G0("init")
    /\ \E files \in [TexIds -> FileStates] :
          ref = [files |-> files, grid |-> <<>>, cache |-> <<>>,
                 decodes |-> [id \in TexIds |-> 0],
                 created |-> [id \in TexIds |-> 0],
                 futures |-> <<>>, tasks |-> <<>>, k |-> 1, stale |-> {},
                 pc |-> "idle", drawn |-> <<>>, raised |-> FALSE]

TexStep(op, arg, m) ==
    /\ ref' = m
    /\ g' = [G0(op) EXCEPT !.arg = arg]
    /\ UNCHANGED <<canvas, brush, picker, scr>>

\* The tasks of the running call that are not done.
Unfinished(m) ==
    {[id |-> m.futures[i].id, st |-> m.tasks[i]] :
        i \in {j \in DOMAIN m.tasks : m.tasks[j] \in {"queued", "checked"}}}

\* set_grid up to the submission of the preload tasks (lines 254-273 and
\* 619-642)
TexSetGrid ==
    /\ ref.pc = "idle"
    /\ env.steps < MaxLoads
    /\ \E grid \in TexGrids :
          LET unique == UniqueBlocks(grid, 1)
              futures == SubSeq(unique, 1, Min(Len(unique), PreloadLimit))
              m == [ClearTextures(ref) EXCEPT
                      !.grid = grid,
                      !.stale = @ \cup Unfinished(ref),
                      !.futures = futures,
                      !.tasks = [i \in DOMAIN futures |-> "queued"],
                      !.k = 1,
                      !.drawn = <<>>,
                      !.pc = IF grid = <<>> THEN "render" ELSE "collect"]
          IN  TexStep("set_grid", grid, m)
    /\ env' = [env EXCEPT !.steps = @ + 1]

\* future.result(timeout=0.1) returns the finished task's result (lines
\* 645-650): the image is registered if there is one and the id is not cached
TexCollect ==
    /\ ref.pc = "collect"
    /\ ref.k <= Len(ref.futures)
    /\ ref.tasks[ref.k] \in {"img", "none"}
    /\ LET block == ref.futures[ref.k]
           m == IF ref.tasks[ref.k] = "img" /\ block.id \notin DOMAIN ref.cache
                THEN CreateDpgTexture(ref, block, FileBitmap(block.id))
                ELSE ref
       IN  TexStep("collect", block.id, [m EXCEPT !.k = @ + 1])
    /\ UNCHANGED env

\* future.result(timeout=0.1) times out on a task that is not finished: the
\* exception is swallowed (lines 651-652) and the task keeps running
TexTimeout ==
    /\ ref.pc = "collect"
    /\ ref.k <= Len(ref.futures)
    /\ ref.tasks[ref.k] \in {"queued", "checked"}
    /\ TexStep("timeout", ref.futures[ref.k].id, [ref EXCEPT !.k = @ + 1])
    /\ UNCHANGED env

\* set_grid, line 275: self.render() after the last future
TexSetGridRender ==
    /\ ref.pc \in {"collect", "render"}
    /\ ref.k > Len(ref.futures)
    /\ TexStep("render", <<>>, [TexRender(ref) EXCEPT !.pc = "idle"])
    /\ UNCHANGED env

\* preload_block, line 628: the worker looks the id up in the cache
WorkerChecked(m, id) == IF id \notin DOMAIN m.cache THEN "checked" ELSE "none"

\* preload_block, lines 629-635: the worker decodes the file if it exists;
\* a decode error is swallowed
WorkerDecoded(m, id) ==
    IF m.files[id] = "ok" THEN [m EXCEPT !.decodes[id] = @ + 1] ELSE m
WorkerResult(m, id) == IF m.files[id] = "ok" THEN "img" ELSE "none"

WorkerCheck ==
    /\ \E i \in DOMAIN ref.tasks :
          /\ ref.tasks[i] = "queued"
          /\ TexStep("worker_check", ref.futures[i].id,
                     [ref EXCEPT !.tasks[i] = WorkerChecked(ref, ref.futures[i].id)])
    /\ UNCHANGED env

WorkerDecode ==
    /\ \E i \in DOMAIN ref.tasks :
          /\ ref.tasks[i] = "checked"
          /\ TexStep("worker_decode", ref.futures[i].id,
                     [WorkerDecoded(ref, ref.futures[i].id) EXCEPT
                        !.tasks[i] = WorkerResult(ref, ref.futures[i].id)])
    /\ UNCHANGED env

\* The same two steps of a task whose result nobody waits for any more.
StaleCheck ==
    /\ \E t \in ref.stale :
          /\ t.st = "queued"
          /\ TexStep("worker_check", t.id,
                     [ref EXCEPT !.stale =
                        (@ \ {t}) \cup
                        (IF WorkerChecked(ref, t.id) = "checked"
                         THEN {[t EXCEPT !.st = "checked"]} ELSE {})])
    /\ UNCHANGED env

StaleDecode ==
    /\ \E t \in ref.stale :
          /\ t.st = "checked"
          /\ TexStep("worker_decode", t.id,
                     [WorkerDecoded(ref, t.id) EXCEPT !.stale = @ \ {t}])
    /\ UNCHANGED env

NextTex ==
    \/ TexSetGrid
    \/ TexCollect
    \/ TexTimeout
    \/ TexSetGridRender
    \/ WorkerCheck
    \/ WorkerDecode
    \/ StaleCheck
    \/ StaleDecode

SpecTex == InitTex /\ [][NextTex]_vars

\* C31: a cached bitmap of a tile whose file is missing or does not decode
\* is the solid bitmap of the tile's average colour, or of magenta when the
\* tile has none; a render ends without an exception with every tile of the
\* grid drawn from the cache; and no tile gets a second texture between two
\* clears, so every later lookup was a cache hit.
C31_TextureLoadNeverFails ==
    /\ \A id \in DOMAIN ref.cache :
          ref.cache[id] =
              IF ref.files[id] = "ok" THEN [kind |-> "file", of |-> id]
              ELSE IF id = "stone" THEN [kind |-> "solid", of |-> <<125, 125, 125>>]
              ELSE [kind |-> "solid", of |-> <<255, 0, 255>>]
    /\ g.op = "render" =>
          /\ ~ref.raised
          /\ Len(ref.drawn) = Len(ref.grid)
          /\ \A i \in DOMAIN ref.grid :
                /\ ref.grid[i].id \in DOMAIN ref.cache
                /\ ref.drawn[i] = ref.cache[ref.grid[i].id]
    /\ \A id \in TexIds : ref.created[id] <= 1

\* C31 witness: a render has drawn a grid of three cells in which one tile's
\* file is missing and has no average colour and the other's does not decode.
C31_Witness ==
    /\ g.op = "render"
    /\ Len(ref.drawn) = 3
    /\ ref.files["glass"] = "missing"
    /\ ref.files["stone"] = "corrupt"
    /\ ref.drawn[1] = SolidBitmap(Magenta)
    /\ ref.drawn[2] = SolidBitmap(<<125, 125, 125>>)
    /\ ref.drawn[3] = ref.drawn[1]

\* C32 as stated: between two clears of the cache no tile is decoded more
\* than once, whatever the interleaving of the worker tasks and the main
\* thread.
C32_NoDuplicateDecode ==
    \A id \in TexIds : ref.decodes[id] <= 1

\* C37 as stated: at every state every coordinate of the dirty set is a cell
\* of the current grid, also right after set_grid has replaced the grid by a
\* smaller or an empty one while edits were pending.
C37_DirtyInsideGrid ==
    canvas.dirty \subseteq Cells(canvas.gridW, canvas.gridH)

\* ------------------------------------------------------------------------
\* Specification SpecViewChange: the host loads grids and edits cells (the
\* edits' renders are deferred while the last render is recent) and the view
\* is zoomed, fitted and reset.
\* ------------------------------------------------------------------------
VcShapes == {<<0, 0>>, <<2, 1>>}
VcCells == {<<0, 0>>}
VcZooms == {2 * Scale}

VcClock == TimePassesStep /\ UNCHANGED ref
VcSetGrid ==
    /\ \E shape \in VcShapes, fill \in Tiles :
          Apply(SetGrid([PreView("set_grid") EXCEPT !.g.preDirty = canvas.dirty],
                        shape[1], shape[2], UniformGrid(shape[1], shape[2], fill)))
    /\ UNCHANGED <<env, ref>>
VcEdit == (\E c \in VcCells, b \in Tiles : SetBlockTo(c, b)) /\ UNCHANGED ref
VcSetZoom ==
    /\ \E z \in VcZooms :
          Apply(SetZoom([PreView("set_zoom") EXCEPT !.g.preDirty = canvas.dirty],
                        z, CenterX(canvas), CenterY(canvas)))
    /\ UNCHANGED <<env, ref>>
VcZoomToFit ==
    /\ Apply(ZoomToFit([PreView("zoom_to_fit") EXCEPT !.g.preDirty = canvas.dirty]))
    /\ UNCHANGED <<env, ref>>
VcResetView ==
    /\ Apply(ResetView([PreView("reset_view") EXCEPT !.g.preDirty = canvas.dirty]))
    /\ UNCHANGED <<env, ref>>

NextViewChange ==
    \/ VcClock
    \/ VcSetGrid
    \/ VcEdit
    \/ VcSetZoom
    \/ VcZoomToFit
    \/ VcResetView

SpecViewChange == Init /\ [][NextViewChange]_vars

\* An operation has just changed the viewport or replaced the grid.
ViewChangeDone ==
    \/ g.op \in {"set_grid", "reset_view"}
    \/ g.op = "zoom_to_fit" /\ canvas.gridH > 0
    \/ g.op = "set_zoom" /\ canvas.zoom # g.pre.zoom

\* C33 as stated: set_zoom with a changed zoom, zoom_to_fit, reset_view and
\* set_grid end with a full render, so that every visible cell shows its
\* tile at the new view, also when dirty cells of a deferred render were
\* pending.
C33_ViewChangeFullRender ==
    ViewChangeDone =>
        /\ g.mode \in {"full", "empty"}
        /\ canvas.gridH > 0 => ViewRedrawn

\* C34 as stated: with the picker as the active tool, no press, drag or
\* release of the left button, over the grid or beside it, changes a cell
\* of the grid, adds a coordinate to the dirty set or emits a block-changed
\* notification.
C34_PickerNeverEdits ==
    (g.op \in {"press", "move", "release"} /\ canvas.activeTool = "picker") =>
        /\ g.changed = {}
        /\ canvas.dirty \subseteq g.preDirty
        /\ g.notified = {}


\* C35: release ends the stroke.  After the left button is released,
\* wherever the pointer is and however the gesture began, the brush holds no
\* interpolation anchor (_last_painted_pos is None), so the next gesture's
\* first drag cannot paint a line from a cell of an earlier stroke.
C35_ReleaseEndsStroke ==
    g.op = "release" => brush.lastPaintedPos = NoPos


\* ------------------------------------------------------------------------
\* Specification SpecDeferred: the main loops.  The canvas runs under one of
\* its two hosts, MinepixelEditorApp (application.py) or TestApp
\* (test_canvas_dpg.py); cells are edited, the middle button pans, the clock
\* advances and the host's main loop keeps iterating: both are weakly fair.
\* ------------------------------------------------------------------------
Hosts == {"application", "test_canvas_dpg"}
DeferredCells == {<<0, 0>>, <<MaxW - 1, MaxH - 1>>}

InitDeferred ==
    /\ canvas = InitCanvas
    /\ brush = InitBrush
    /\ picker = InitPicker
    /\ scr = ClearedScreen
    /\ env = InitEnv
    /\ g = G0("init")
    /\ \E h \in Hosts : ref = [host |-> h]

\* One iteration of a main loop in which no render is made:
\* application.run with no pan and no pending render that is due, and every
\* iteration of TestApp.run, which only calls dpg.render_dearpygui_frame().
FrameStep ==
    /\ \/ ref.host = "test_canvas_dpg"
       \/ ~canvas.isPanning /\ ~(canvas.pending /\ canvas.sinceRender >= RenderDelay)
    /\ g' = G0("frame")
    /\ UNCHANGED <<canvas, brush, picker, scr, env, ref>>

DeferredClock == Alive /\ TimePasses
DeferredFrame == Alive /\ FrameStep
DeferredTick == Alive /\ ref.host = "application" /\ Tick
DeferredPanTick == Alive /\ ref.host = "application" /\ PanTickStep /\ UNCHANGED ref
DeferredLoadGrid == Alive /\ LoadGrid
DeferredEdit ==
    Alive /\ (\E c \in DeferredCells, b \in Tiles : SetBlockTo(c, b)) /\ UNCHANGED ref
DeferredPanStart == Alive /\ PanStartAt(PanOrigin) /\ UNCHANGED ref
DeferredPanStop == Alive /\ PanStopStep /\ UNCHANGED ref

\* The while loop of run(): one iteration.
MainLoop == DeferredFrame \/ DeferredTick \/ DeferredPanTick

NextDeferred ==
    \/ DeferredClock
    \/ DeferredFrame
    \/ DeferredTick
    \/ DeferredPanTick
    \/ DeferredLoadGrid
    \/ DeferredEdit
    \/ DeferredPanStart
    \/ DeferredPanStop

SpecDeferred ==
    /\ InitDeferred
    /\ [][NextDeferred]_vars
    /\ WF_vars(DeferredClock)
    /\ WF_vars(MainLoop)

\* The render of a cell edit is deferred: the throttle set the pending flag
\* and the edited cells stay in the dirty set.
RenderDeferred == canvas.pending /\ canvas.dirty # {}

\* C36: deferred edits are eventually displayed.  Whenever the render of a
\* cell edit is deferred by the throttle, a later render of the main loop
\* eventually draws the dirty cells with their current tiles and empties the
\* dirty set, with no further input event and also while a pan is in
\* progress.
C36_DeferredEventuallyDisplayed ==
    RenderDeferred ~>
        /\ canvas.dirty = {}
        /\ \A c \in VisibleCells(canvas) :
               c \in DOMAIN scr.drawn /\ scr.drawn[c][1] = canvas.grid[c]


\* The ids of the tiles the BlockManager's matcher can return.
MatcherIds == {ref.matcher.blocks[k] : k \in DOMAIN ref.matcher.blocks}

\* C38: the matcher follows the active set.  After reload_with_filters and
\* after load_blocks, every tile the BlockManager's matcher can return is a
\* currently active tile without transparency, for every ignore
\* configuration, the one in which every tile is ignored included.
C38_MatcherFollowsActiveSet ==
    g.op \in {"load_blocks", "reload_with_filters"} =>
        \A id \in MatcherIds :
            \E i \in DOMAIN ref.active :
                ref.active[i].id = id /\ ~ref.active[i].hasTransparency


\* ------------------------------------------------------------------------
\* Specification SpecLine: _bresenham_line as a function of its endpoints,
\* which are any two cells with coordinates from -LineMax to LineMax (a
\* pointer left of or above the grid is over a cell with a negative
\* coordinate).
\* ------------------------------------------------------------------------
LineMax == 3
LineCoords == (0 - LineMax)..LineMax

InitLine ==
    /\ canvas = InitCanvas
    /\ brush = InitBrush
    /\ picker = InitPicker
    /\ scr = ClearedScreen
    /\ env = InitEnv
    /\ g = G0("init")
    /\ \E x0, y0, x1, y1 \in LineCoords :
          ref = [from |-> <<x0, y0>>, to |-> <<x1, y1>>, points |-> <<>>]

\* points = canvas._bresenham_line(x0, y0, x1, y1)
LineCall ==
    /\ g.op = "init"
    /\ ref' = [ref EXCEPT !.points = BresenhamLine(ref.from[1], ref.from[2],
                                                   ref.to[1], ref.to[2])]
    /\ g' = G0("bresenham_line")
    /\ UNCHANGED <<canvas, brush, picker, scr, env>>

NextLine == LineCall

SpecLine == InitLine /\ [][NextLine]_vars

\* C39: line rasterization terminates and is connected.  For every pair of
\* integer cells (x0, y0), (x1, y1), _bresenham_line returns a path that
\* starts at (x0, y0), ends at (x1, y1), has max(|x1 - x0|, |y1 - y0|) + 1
\* points, and whose consecutive points differ by at most 1 in each
\* coordinate.
C39_LineConnected ==
    g.op = "bresenham_line" =>
        LET p == ref.points
            n == Max(Abs(ref.to[1] - ref.from[1]), Abs(ref.to[2] - ref.from[2])) + 1
        IN  /\ Len(p) = n
            /\ p[1] = ref.from
            /\ p[n] = ref.to
            /\ \A i \in 1..(n - 1) :
                   /\ Abs(p[i + 1][1] - p[i][1]) <= 1
                   /\ Abs(p[i + 1][2] - p[i][2]) <= 1

\* C39 witness: a line was rasterized that runs right to left and downwards
\* across the origin, steeper than the diagonal, over LineMax + 1 rows or
\* more.
C39_Witness ==
    /\ g.op = "bresenham_line"
    /\ ref.to[1] < ref.from[1]
    /\ ref.to[1] < 0
    /\ ref.from[2] < 0
    /\ ref.to[2] - ref.from[2] > ref.from[1] - ref.to[1]
    /\ Len(ref.points) > LineMax + 1

=============================================================================
